---- MODULE Spec2Model ----
(***************************************************************************)
(* Verification model of the LineupTracker polling core                    *)
(* (src/src/lineup_tracker): circuit breaker, retry wrapper, rate limiter, *)
(* upstream client and the async monitoring loop.                          *)
(*                                                                         *)
(* Every component has its own variables, initial condition and actions;   *)
(* a specification of one component leaves the others' variables alone.   *)
(* Time is a discrete clock `now`; durations are counted in its ticks.     *)
(***************************************************************************)
EXTENDS Integers, Sequences, FiniteSets, TLC

None == 0 - 1

Min(a, b) == IF a <= b THEN a ELSE b

Max(a, b) == IF a >= b THEN a ELSE b

(***************************************************************************)
(* Bounds of the model.                                                    *)
(***************************************************************************)
MaxTime == 5

MaxThreshold == 2

MaxRecovery == 2

NumCallers == 2

MaxCalls == 5

MaxAttempts == 3

MaxRate == 2

MaxBucket == 2

TokenTicks == 2

MaxClientCalls == 2

VARIABLE now

(***************************************************************************)
(* CircuitBreaker, utils/retry.py:72-176.                                  *)
(* One breaker object shared by NumCallers concurrent callers of           *)
(* _execute_async.  A caller runs _should_attempt without suspension,      *)
(* then awaits the wrapped operation (bounded by asyncio.wait_for), then   *)
(* records the outcome without suspension.                                 *)
(***************************************************************************)
VARIABLES
    failure_threshold,   \* CircuitBreakerConfig.failure_threshold
    recovery_timeout,    \* CircuitBreakerConfig.recovery_timeout (ticks)
    success_threshold,   \* CircuitBreakerConfig.success_threshold
    state,               \* CircuitBreaker.state
    failure_count,       \* CircuitBreaker.failure_count
    success_count,       \* CircuitBreaker.success_count
    last_failure_time,   \* CircuitBreaker.last_failure_time (None or a time)
    cbCall,              \* per caller: "idle" or "inflight" (awaiting func)
    cbOutcome,           \* per caller: how its last call ended
    invocations,         \* how often the wrapped operation was invoked
    consecFails,         \* history: failures recorded since the last recorded success
    hoSuccesses,         \* history: successes recorded since half-open was entered
    openedAt,            \* history: time of the latest transition to open
    everHalfOpen,        \* history: the breaker has left open at least once
    trial                \* history: the caller whose call in flight moved the breaker to half-open, 0 if none

cbVars == <<failure_threshold, recovery_timeout, success_threshold, state,
            failure_count, success_count, last_failure_time, cbCall, cbOutcome,
            invocations, consecFails, hoSuccesses, openedAt, everHalfOpen, trial>>

Callers == 1..NumCallers

\* CircuitBreaker.__init__: closed, counters zero, no failure seen
CBFresh ==
    /\ state = "closed"
    /\ failure_count = 0
    /\ success_count = 0
    /\ last_failure_time = None
    /\ cbCall = [c \in Callers |-> "idle"]
    /\ cbOutcome = [c \in Callers |-> "none"]
    /\ invocations = 0
    /\ consecFails = 0
    /\ hoSuccesses = 0
    /\ openedAt = None
    /\ everHalfOpen = FALSE
    /\ trial = 0

\* a breaker constructed with any thresholds >= 1
CBInit ==
    /\ failure_threshold \in 1..MaxThreshold
    /\ recovery_timeout \in 1..MaxRecovery
    /\ success_threshold \in 1..MaxThreshold
    /\ CBFresh

\* the open branch of _should_attempt that lets the call through
RecoveryElapsed ==
    /\ last_failure_time # None
    /\ now - last_failure_time >= recovery_timeout

\* a mutated admission test: an open breaker admits every call
ShouldAttempt_IgnoresOpen == TRUE

\* _should_attempt's return value in the current state
ShouldAttempt ==
    \/ state = "closed"
    \/ state = "open" /\ RecoveryElapsed
    \/ state = "half_open"

\* a mutated effect: an open breaker whose recovery timeout has elapsed
\* closes at once
ShouldAttemptEffect_ClosesAtOnce ==
    IF state = "open" /\ RecoveryElapsed
    THEN /\ state' = "closed"
         /\ success_count' = 0
         /\ hoSuccesses' = 0
         /\ everHalfOpen' = TRUE
    ELSE UNCHANGED <<state, success_count, hoSuccesses, everHalfOpen>>

\* _should_attempt's effect on the breaker: open -> half_open once the
\* recovery timeout has elapsed since last_failure_time
ShouldAttemptEffect ==
    IF state = "open" /\ RecoveryElapsed
    THEN /\ state' = "half_open"
         /\ success_count' = 0
         /\ hoSuccesses' = 0
         /\ everHalfOpen' = TRUE
    ELSE UNCHANGED <<state, success_count, hoSuccesses, everHalfOpen>>

\* a mutated _record_success: closing the circuit keeps the failure counter
RecordSuccess_KeepsFailures ==
    /\ IF state = "half_open"
       THEN /\ success_count' = success_count + 1
            /\ state' = IF success_count + 1 >= success_threshold
                        THEN "closed" ELSE state
            /\ UNCHANGED failure_count
       ELSE IF state = "closed"
            THEN failure_count' = 0 /\ UNCHANGED <<state, success_count>>
            ELSE UNCHANGED <<state, failure_count, success_count>>
    /\ UNCHANGED <<last_failure_time, openedAt>>

\* _record_success
RecordSuccess ==
    /\ IF state = "half_open"
       THEN /\ success_count' = success_count + 1
            /\ IF success_count + 1 >= success_threshold
               THEN state' = "closed" /\ failure_count' = 0
               ELSE UNCHANGED <<state, failure_count>>
       ELSE IF state = "closed"
            THEN failure_count' = 0 /\ UNCHANGED <<state, success_count>>
            ELSE UNCHANGED <<state, failure_count, success_count>>
    /\ UNCHANGED <<last_failure_time, openedAt>>

\* _record_failure
RecordFailure ==
    /\ failure_count' = failure_count + 1
    /\ last_failure_time' = now
    /\ state' = IF state = "closed"
                THEN (IF failure_count + 1 >= failure_threshold
                      THEN "open" ELSE "closed")
                ELSE IF state = "half_open" THEN "open" ELSE state
    /\ openedAt' = IF state # "open" /\ state' = "open" THEN now ELSE openedAt
    /\ UNCHANGED success_count

\* _execute_async up to its await: rejected with CircuitBreakerOpenError, or
\* the wrapped operation is invoked
CBCall(c) ==
    /\ cbCall[c] = "idle"
    /\ invocations < MaxCalls
    /\ IF ShouldAttempt
       THEN /\ ShouldAttemptEffect
            /\ cbCall' = [cbCall EXCEPT ![c] = "inflight"]
            /\ invocations' = invocations + 1
            /\ cbOutcome' = [cbOutcome EXCEPT ![c] = "none"]
            /\ trial' = IF state = "open" THEN c ELSE trial
       ELSE /\ cbOutcome' = [cbOutcome EXCEPT ![c] = "rejected"]
            /\ UNCHANGED <<state, success_count, hoSuccesses, everHalfOpen,
                           cbCall, invocations, trial>>
    /\ UNCHANGED <<failure_threshold, recovery_timeout, success_threshold,
                   failure_count, last_failure_time, consecFails, openedAt, now>>

\* the awaited operation returns: _record_success, result returned
CBSuccess(c) ==
    /\ cbCall[c] = "inflight"
    /\ RecordSuccess
    /\ cbCall' = [cbCall EXCEPT ![c] = "idle"]
    /\ cbOutcome' = [cbOutcome EXCEPT ![c] = "success"]
    /\ trial' = IF trial = c THEN 0 ELSE trial
    /\ consecFails' = 0
    /\ hoSuccesses' = IF state = "half_open" THEN hoSuccesses + 1 ELSE hoSuccesses
    /\ UNCHANGED <<failure_threshold, recovery_timeout, success_threshold,
                   invocations, everHalfOpen, now>>

\* the awaited operation raises, or wait_for times it out: _record_failure,
\* the exception re-raised
CBFailure(c) ==
    /\ cbCall[c] = "inflight"
    /\ RecordFailure
    /\ cbCall' = [cbCall EXCEPT ![c] = "idle"]
    /\ cbOutcome' = [cbOutcome EXCEPT ![c] = "failure"]
    /\ trial' = IF trial = c THEN 0 ELSE trial
    /\ consecFails' = consecFails + 1
    /\ UNCHANGED <<failure_threshold, recovery_timeout, success_threshold,
                   invocations, hoSuccesses, everHalfOpen, now>>

\* the clock advances
CBTick ==
    /\ now < MaxTime
    /\ now' = now + 1
    /\ UNCHANGED cbVars

(***************************************************************************)
(* retry(...).async_wrapper, utils/retry.py:262-301, around an operation   *)
(* that raises an exception on its first rt_k - 1 invocations, of type     *)
(* rt_excType on the first and of type rt_excNext on the later ones, and   *)
(* returns a value on invocation rt_k.                                     *)
(***************************************************************************)
VARIABLES
    rt_max_attempts,     \* RetryConfig.max_attempts
    rt_non_retriable,    \* RetryConfig.non_retriable_exceptions (set of types, {} if unset)
    rt_retriable,        \* RetryConfig.retriable_exceptions (set of types, {} if unset)
    rt_exceptions,       \* RetryConfig.exceptions (set of types)
    rt_k,                \* the operation succeeds on its rt_k-th invocation
    rt_excType,          \* the type of the exception the operation raises first
    rt_excNext,          \* the type of the exceptions it raises after the first
    rt_pc,               \* "start", "call", "sleep", "returned", "raised", "exhausted"
    rt_attempt,          \* the loop variable attempt
    rt_invocations,      \* how often the operation was invoked
    rt_last_exception,   \* last_exception
    rt_raised            \* what the wrapper raised: <<kind, attempts, cause>>

retryVars == <<rt_max_attempts, rt_non_retriable, rt_retriable, rt_exceptions,
               rt_k, rt_excType, rt_excNext, rt_pc, rt_attempt, rt_invocations,
               rt_last_exception, rt_raised>>

ExcTypes == {"ValueError", "KeyError"}

NoException == "None"

RetryInit ==
    /\ rt_max_attempts \in 0..MaxAttempts
    /\ rt_non_retriable \in SUBSET ExcTypes
    /\ rt_retriable \in SUBSET ExcTypes
    /\ rt_exceptions \in {ExcTypes, {"ValueError"}}
    /\ rt_k \in 1..(MaxAttempts + 1)
    /\ rt_excType \in ExcTypes
    /\ rt_excNext \in ExcTypes
    /\ rt_pc = "start"
    /\ rt_attempt = 0
    /\ rt_invocations = 0
    /\ rt_last_exception = NoException
    /\ rt_raised = <<"nothing", 0, NoException>>

\* should_retry with the test of lines 211-213 left out
should_retry_SkipsNonRetriable(e) ==
    IF rt_retriable # {} THEN e \in rt_retriable
    ELSE e \in rt_exceptions

\* should_retry, utils/retry.py:208-220
should_retry(e) ==
    IF rt_non_retriable # {} /\ e \in rt_non_retriable THEN FALSE
    ELSE IF rt_retriable # {} THEN e \in rt_retriable
    ELSE e \in rt_exceptions

\* a mutated last-attempt test: exhaustion is declared one attempt early
IsLastAttempt_OneEarly == rt_attempt + 1 >= rt_max_attempts

\* `if attempt == config.max_attempts`
IsLastAttempt == rt_attempt = rt_max_attempts

\* entering `for attempt in range(1, max_attempts + 1)`; an empty range falls
\* through to the final raise RetryExhaustedError(max_attempts, last_exception)
RetryStart ==
    /\ rt_pc = "start"
    /\ IF rt_max_attempts >= 1
       THEN /\ rt_pc' = "call"
            /\ rt_attempt' = 1
            /\ UNCHANGED rt_raised
       ELSE /\ rt_pc' = "exhausted"
            /\ rt_raised' = <<"RetryExhaustedError", rt_max_attempts, rt_last_exception>>
            /\ UNCHANGED rt_attempt
    /\ UNCHANGED <<rt_max_attempts, rt_non_retriable, rt_retriable, rt_exceptions,
                   rt_k, rt_excType, rt_excNext, rt_invocations,
                   rt_last_exception>>

\* one pass of the loop body: await func(), then the except clause
RetryAttempt ==
    /\ rt_pc = "call"
    /\ rt_invocations' = rt_invocations + 1
    /\ IF rt_invocations + 1 >= rt_k
       THEN /\ rt_pc' = "returned"
            /\ UNCHANGED <<rt_last_exception, rt_raised>>
       ELSE LET e == IF rt_invocations = 0 THEN rt_excType ELSE rt_excNext IN
            /\ rt_last_exception' = e
            /\ IF ~should_retry(e)
               THEN /\ rt_pc' = "raised"
                    /\ rt_raised' = <<e, rt_attempt, e>>
               ELSE IF IsLastAttempt
                    THEN /\ rt_pc' = "exhausted"
                         /\ rt_raised' = <<"RetryExhaustedError", rt_max_attempts, e>>
                    ELSE /\ rt_pc' = "sleep"
                         /\ UNCHANGED rt_raised
    /\ UNCHANGED <<rt_max_attempts, rt_non_retriable, rt_retriable, rt_exceptions,
                   rt_k, rt_excType, rt_excNext, rt_attempt>>

\* asyncio.sleep(delay) returns and the for loop takes its next value
RetryWake ==
    /\ rt_pc = "sleep"
    /\ IF rt_attempt < rt_max_attempts
       THEN /\ rt_pc' = "call"
            /\ rt_attempt' = rt_attempt + 1
            /\ UNCHANGED rt_raised
       ELSE /\ rt_pc' = "exhausted"
            /\ rt_raised' = <<"RetryExhaustedError", rt_max_attempts, rt_last_exception>>
            /\ UNCHANGED rt_attempt
    /\ UNCHANGED <<rt_max_attempts, rt_non_retriable, rt_retriable, rt_exceptions,
                   rt_k, rt_excType, rt_excNext, rt_invocations,
                   rt_last_exception>>

(***************************************************************************)
(* RateLimiter, providers/async_sofascore_client.py:29-58.                 *)
(* The limiter reads the clock only through differences, so the model      *)
(* keeps elapsed times.  One tick is 1/TokenTicks of the time in which one *)
(* token accrues (60 / requests_per_minute seconds); token amounts are     *)
(* counted in 1/TokenTicks of a token, so that one tick adds one unit and  *)
(* 60 seconds are requests_per_minute * TokenTicks ticks.                  *)
(***************************************************************************)
VARIABLES
    requests_per_minute, \* RateLimiter.requests_per_minute
    bucket_size,         \* RateLimiter.bucket_size
    tokens,              \* RateLimiter._tokens, in 1/TokenTicks of a token
    since_update,        \* time.time() - _last_update in ticks (saturating)
    rl_pc,               \* per caller: "idle" or "waiting" (in asyncio.sleep)
    rl_wait,             \* per caller: ticks left of its asyncio.sleep
    rl_recent,           \* history: ages in ticks of the grants of the last 60 s
    rl_elapsed,          \* history: ticks since creation (saturating)
    rl_returns           \* history: acquire() calls that have returned (saturating)

rlVars == <<requests_per_minute, bucket_size, tokens, since_update, rl_pc,
            rl_wait, rl_recent, rl_elapsed, rl_returns>>

\* the history variables of the limiter
rlHistory == <<rl_recent, rl_elapsed, rl_returns>>

\* ticks since creation that the history counts
MaxElapsedTicks == 4

\* __post_init__: a full bucket
RLInit ==
    /\ requests_per_minute \in 1..MaxRate
    /\ bucket_size \in 1..MaxBucket
    /\ tokens = bucket_size * TokenTicks
    /\ since_update = 0
    /\ rl_pc = [c \in Callers |-> "idle"]
    /\ rl_wait = [c \in Callers |-> 0]
    /\ rl_recent = << >>
    /\ rl_elapsed = 0
    /\ rl_returns = 0

\* 60 seconds in ticks
WindowTicks == requests_per_minute * TokenTicks

\* min(bucket_size, _tokens + time_passed * requests_per_minute / 60)
Refilled == Min(bucket_size * TokenTicks, tokens + since_update)

\* the grant history after one more tick: grants older than 60 s drop out
Aged(seq) == LET older == [i \in 1..Len(seq) |-> seq[i] + 1]
             IN SelectSeq(older, LAMBDA a : a < WindowTicks)

\* acquire() up to its return or its await: refill, then take a token or
\* start sleeping for the time the missing part of a token needs
RLAcquire(c) ==
    /\ rl_pc[c] = "idle"
    /\ since_update' = 0
    /\ IF Refilled < TokenTicks
       THEN /\ tokens' = Refilled
            /\ rl_pc' = [rl_pc EXCEPT ![c] = "waiting"]
            /\ rl_wait' = [rl_wait EXCEPT ![c] = TokenTicks - Refilled]
       ELSE /\ tokens' = Refilled - TokenTicks
            /\ UNCHANGED <<rl_pc, rl_wait>>
    /\ UNCHANGED <<requests_per_minute, bucket_size>>

\* asyncio.sleep(wait_time) returns: `self._tokens = 0`, acquire() returns
RLWake(c) ==
    /\ rl_pc[c] = "waiting"
    /\ rl_wait[c] = 0
    /\ tokens' = 0
    /\ rl_pc' = [rl_pc EXCEPT ![c] = "idle"]
    /\ UNCHANGED <<requests_per_minute, bucket_size, since_update, rl_wait>>

\* one tick passes; a sleep that is due returns before the next tick
RLTick ==
    /\ \A c \in Callers : rl_pc[c] = "waiting" => rl_wait[c] > 0
    /\ since_update' = Min(bucket_size * TokenTicks, since_update + 1)
    /\ rl_wait' = [c \in Callers |->
                     IF rl_pc[c] = "waiting" THEN rl_wait[c] - 1 ELSE rl_wait[c]]
    /\ UNCHANGED <<requests_per_minute, bucket_size, tokens, rl_pc>>

\* the history of grants over a step of the limiter: a step after which
\* caller c is not sleeping is a return of its acquire()
Granted(c) ==
    /\ rl_recent' = IF rl_pc'[c] = "idle" THEN Append(rl_recent, 0)
                                          ELSE rl_recent
    /\ rl_returns' = IF rl_pc'[c] = "idle"
                     THEN Min(MaxBucket + MaxElapsedTicks, rl_returns + 1)
                     ELSE rl_returns
    /\ UNCHANGED rl_elapsed

\* the history over a tick
Ticked ==
    /\ rl_recent' = Aged(rl_recent)
    /\ rl_elapsed' = Min(MaxElapsedTicks, rl_elapsed + 1)
    /\ UNCHANGED rl_returns

(***************************************************************************)
(* AsyncSofascoreClient, providers/async_sofascore_client.py.              *)
(* get_fixtures and get_lineup are the bodies at 157-198 and 216-270 under *)
(* @cached_async, @retry(max_attempts=3) and @timeout(30), in this order   *)
(* from the outside.  Each caller is one coroutine calling them one after  *)
(* the other; the callers run concurrently on one event loop, so a step    *)
(* between two awaits is atomic.  The client owns the limiter above (with  *)
(* bucket_size = requests_per_minute) and a circuit breaker, whose state   *)
(* is the breaker variables above.  _active_requests and the response-time *)
(* sum are written but read by no modelled operation and are left out.     *)
(***************************************************************************)
VARIABLES
    max_concurrent_requests, \* APIConfig.max_concurrent_requests
    cl_permits,          \* free permits of _request_semaphore
    cl_pc,               \* per caller: where its current call is suspended
    cl_op,               \* per caller: the method it called last
    cl_attempt,          \* per caller: `attempt` of the retry loop
    cl_result,           \* per caller: how its last call ended
    cl_response,         \* per caller: the last answer of the upstream
    cl_requests,         \* history, per caller: requests its call sent upstream
    request_count,       \* AsyncSofascoreClient._request_count
    error_count,         \* AsyncSofascoreClient._error_count
    fixtures_cached,     \* the key of the live get_fixtures entry of the cache, << >> if none
    cl_key,              \* per caller: the cache key of its call in progress (cache.py:246)
    cl_calls,            \* history: calls begun
    cl_failedCalls       \* history: calls that raised since the last that returned

clientVars == <<max_concurrent_requests, cl_permits, cl_pc, cl_op, cl_attempt,
                cl_result, cl_response, cl_requests, request_count,
                error_count, fixtures_cached, cl_key, cl_calls,
                cl_failedCalls>>

\* @retry(max_attempts=3) on get_fixtures and get_lineup
ClientMaxAttempts == 3

ClientOps == {"get_fixtures", "get_lineup"}

\* what the upstream can do with one request: answer with data, answer
\* not-found, or fail (connection error, server error, malformed body)
Responses == {"ok", "not_found", "error"}

\* __init__: the semaphore, the metrics, no call made yet
ClientFresh ==
    /\ max_concurrent_requests \in 1..NumCallers
    /\ cl_permits = max_concurrent_requests
    /\ cl_pc = [c \in Callers |-> "idle"]
    /\ cl_op = [c \in Callers |-> "get_fixtures"]
    /\ cl_attempt = [c \in Callers |-> 0]
    /\ cl_result = [c \in Callers |-> "none"]
    /\ cl_response = [c \in Callers |-> "none"]
    /\ cl_requests = [c \in Callers |-> 0]
    /\ request_count = 0
    /\ error_count = 0
    /\ fixtures_cached = << >>
    /\ cl_key = [c \in Callers |-> << >>]
    /\ cl_calls = 0
    /\ cl_failedCalls = 0

\* __init__: the breaker gets failure_threshold=5, recovery_timeout=60,
\* success_threshold=3; the limiter a bucket of rate_limit_per_minute
ClientInit ==
    /\ failure_threshold = 5
    /\ recovery_timeout = 60
    /\ success_threshold = 3
    /\ CBFresh
    /\ RLInit
    /\ bucket_size = requests_per_minute
    /\ ClientFresh

\* a mutated not-found test: a not-found answer is an error like any other
IsNotFound_Never(r) == FALSE

\* _fetch_lineup_from_api: `"404" in str(e) or "not found" in str(e).lower()`
\* and `not home_lineup or not away_lineup`; _fetch_fixtures_from_api: a
\* status other than 200
IsNotFound(r) == r = "not_found"

\* the call of caller c returns `res` through the retry and cache wrappers
ClReturn(c, res) ==
    /\ cl_pc' = [cl_pc EXCEPT ![c] = "idle"]
    /\ cl_result' = [cl_result EXCEPT ![c] = res]
    /\ cl_failedCalls' = 0
    /\ cl_key' = [cl_key EXCEPT ![c] = << >>]
    /\ UNCHANGED cl_attempt

\* the attempt of caller c raised: the except clause of retry.async_wrapper
ClRaise(c) ==
    IF cl_attempt[c] = ClientMaxAttempts
    THEN /\ cl_pc' = [cl_pc EXCEPT ![c] = "idle"]
         /\ cl_result' = [cl_result EXCEPT ![c] = "RetryExhaustedError"]
         /\ cl_failedCalls' = cl_failedCalls + 1
         /\ cl_key' = [cl_key EXCEPT ![c] = << >>]
         /\ UNCHANGED cl_attempt
    ELSE /\ cl_pc' = [cl_pc EXCEPT ![c] = "backoff"]
         /\ UNCHANGED <<cl_result, cl_attempt, cl_failedCalls, cl_key>>

\* `async with self._request_semaphore`: with a free permit the request
\* goes out (the call has sent `sent` requests before), else the body is
\* suspended until one is released
ClEnter_NoSemaphore(c, sent) ==
    /\ cl_permits' = cl_permits - 1
    /\ cl_pc' = [cl_pc EXCEPT ![c] = "upstream"]
    /\ cl_requests' = [cl_requests EXCEPT ![c] = sent + 1]

ClEnter(c, sent) ==
    IF cl_permits > 0
    THEN /\ cl_permits' = cl_permits - 1
         /\ cl_pc' = [cl_pc EXCEPT ![c] = "upstream"]
         /\ cl_requests' = [cl_requests EXCEPT ![c] = sent + 1]
    ELSE /\ cl_pc' = [cl_pc EXCEPT ![c] = "sem_wait"]
         /\ cl_requests' = [cl_requests EXCEPT ![c] = sent]
         /\ UNCHANGED cl_permits

\* one attempt of the retry loop up to its first suspension:
\* `await self._rate_limiter.acquire()` returns at once or sleeps, then the
\* semaphore (an await that does not suspend does not yield the event loop)
ClAttempt(c, sent) ==
    /\ RLAcquire(c)
    /\ UNCHANGED rlHistory
    /\ IF rl_pc'[c] = "waiting"
       THEN /\ cl_pc' = [cl_pc EXCEPT ![c] = "rl_wait"]
            /\ cl_requests' = [cl_requests EXCEPT ![c] = sent]
            /\ UNCHANGED cl_permits
       ELSE ClEnter(c, sent)

\* cache_key(*args) of a call `self.op()` (cache.py:200-228): the only
\* argument is the client, which has a __dict__, so the key is the hash of
\* str(sorted(self.__dict__.items())), which shows _request_count and
\* _error_count (and more that changes: _total_response_time, _session,
\* the repr of the RateLimiter dataclass with its _tokens and
\* _last_update; the key here is the part made of the two counters).
\* cached_async puts the function's name in front.
cache_key(op) == <<op, request_count, error_count>>

\* a call of get_fixtures or get_lineup up to its first suspension:
\* cached_async.wrapper computes the key and returns a live non-None entry
\* stored under it, anything else is a miss and the first attempt starts
ClBegin(c, op) ==
    /\ cl_pc[c] = "idle"
    /\ cl_calls < MaxClientCalls
    /\ cl_calls' = cl_calls + 1
    /\ cl_op' = [cl_op EXCEPT ![c] = op]
    /\ cl_response' = [cl_response EXCEPT ![c] = "none"]
    /\ IF op = "get_fixtures" /\ fixtures_cached = cache_key(op)
       THEN /\ cl_result' = [cl_result EXCEPT ![c] = "cached"]
            /\ UNCHANGED cl_key
            /\ cl_attempt' = [cl_attempt EXCEPT ![c] = 0]
            /\ cl_requests' = [cl_requests EXCEPT ![c] = 0]
            /\ UNCHANGED <<cl_pc, cl_permits, rlVars>>
       ELSE /\ cl_attempt' = [cl_attempt EXCEPT ![c] = 1]
            /\ cl_result' = [cl_result EXCEPT ![c] = "none"]
            /\ cl_key' = [cl_key EXCEPT ![c] = cache_key(op)]
            /\ ClAttempt(c, 0)
    /\ UNCHANGED <<max_concurrent_requests, request_count, error_count,
                   fixtures_cached, cl_failedCalls>>
    /\ UNCHANGED cbVars

\* the limiter's sleep returns, then the semaphore
ClAcquired(c) ==
    /\ cl_pc[c] = "rl_wait"
    /\ RLWake(c)
    /\ UNCHANGED rlHistory
    /\ ClEnter(c, cl_requests[c])
    /\ UNCHANGED <<max_concurrent_requests, cl_op, cl_attempt, cl_result,
                   cl_response, request_count, error_count, fixtures_cached,
                   cl_calls, cl_key, cl_failedCalls>>
    /\ UNCHANGED cbVars

\* a permit was released to a caller suspended at the semaphore
ClSend(c) ==
    /\ cl_pc[c] = "sem_wait"
    /\ cl_permits > 0
    /\ cl_permits' = cl_permits - 1
    /\ cl_pc' = [cl_pc EXCEPT ![c] = "upstream"]
    /\ cl_requests' = [cl_requests EXCEPT ![c] = @ + 1]
    /\ UNCHANGED <<max_concurrent_requests, cl_op, cl_attempt, cl_result,
                   cl_response, request_count, error_count, fixtures_cached,
                   cl_calls, cl_key, cl_failedCalls>>
    /\ UNCHANGED <<cbVars, rlVars>>

\* the upstream answers the request of caller c with r: the rest of the
\* method body and its except clauses, then the retry and cache wrappers.
\* get_lineup: no data -> None; data -> _convert_lineup_data, which passes
\* formation= and confirmed= to Lineup, gets a TypeError, returns {} and so
\* None again; an exception -> _error_count += 1, FootballDataProviderError.
\* get_fixtures: a 200 -> the matches; another status -> []; both counted
\* in _request_count and cached; an exception as in get_lineup.
ClResponse(c, r) ==
    /\ cl_pc[c] = "upstream"
    /\ cl_permits' = cl_permits + 1
    /\ cl_response' = [cl_response EXCEPT ![c] = r]
    /\ IF cl_op[c] = "get_lineup"
       THEN IF IsNotFound(r) \/ r = "ok"
            THEN /\ ClReturn(c, "None")
                 /\ UNCHANGED <<request_count, error_count, fixtures_cached>>
            ELSE /\ ClRaise(c)
                 /\ error_count' = error_count + 1
                 /\ UNCHANGED <<request_count, fixtures_cached>>
       ELSE IF IsNotFound(r) \/ r = "ok"
            THEN /\ ClReturn(c, IF r = "ok" THEN "matches" ELSE "empty")
                 /\ request_count' = request_count + 1
                 /\ fixtures_cached' = cl_key[c]
                 /\ UNCHANGED error_count
            ELSE /\ ClRaise(c)
                 /\ error_count' = error_count + 1
                 /\ UNCHANGED <<request_count, fixtures_cached>>
    /\ UNCHANGED <<max_concurrent_requests, cl_op, cl_requests, cl_calls>>
    /\ UNCHANGED <<cbVars, rlVars>>

\* @timeout(30): wait_for cancels the suspended body (CancelledError passes
\* its `except Exception` clauses, so _error_count stays) and TimeoutError
\* reaches the retry wrapper; a held permit is released, a limiter sleep is
\* abandoned before `self._tokens = 0`
ClTimeout(c) ==
    /\ cl_pc[c] \in {"rl_wait", "sem_wait", "upstream"}
    /\ cl_permits' = IF cl_pc[c] = "upstream" THEN cl_permits + 1 ELSE cl_permits
    /\ rl_pc' = [rl_pc EXCEPT ![c] = "idle"]
    /\ rl_wait' = [rl_wait EXCEPT ![c] = 0]
    /\ cl_response' = [cl_response EXCEPT ![c] = "timeout"]
    /\ ClRaise(c)
    /\ UNCHANGED <<max_concurrent_requests, cl_op, request_count,
                   error_count, fixtures_cached, cl_calls>>
    /\ UNCHANGED <<requests_per_minute, bucket_size, tokens, since_update,
                   rl_recent, rl_elapsed, rl_returns>>
    /\ UNCHANGED <<cbVars, cl_requests>>

\* the retry wrapper's asyncio.sleep(delay) returns: next attempt
ClBackoffWake(c) ==
    /\ cl_pc[c] = "backoff"
    /\ cl_attempt' = [cl_attempt EXCEPT ![c] = @ + 1]
    /\ ClAttempt(c, cl_requests[c])
    /\ UNCHANGED <<max_concurrent_requests, cl_op, cl_result, cl_response,
                   request_count, error_count, fixtures_cached, cl_calls, cl_key, cl_failedCalls>>
    /\ UNCHANGED cbVars

\* the cached get_fixtures entry outlives its ttl of 600 s
ClCacheExpire ==
    /\ fixtures_cached # << >>
    /\ fixtures_cached' = << >>
    /\ UNCHANGED <<max_concurrent_requests, cl_permits, cl_pc, cl_op,
                   cl_attempt, cl_result, cl_response, request_count, error_count, cl_calls, cl_key,
                   cl_failedCalls>>
    /\ UNCHANGED <<cbVars, rlVars, cl_requests>>

\* get_performance_stats called by caller c: building the dict evaluates
\* self._circuit_breaker._state, an attribute CircuitBreaker does not have
ClGetPerformanceStats(c) ==
    /\ cl_pc[c] = "idle"
    /\ cl_op' = [cl_op EXCEPT ![c] = "get_performance_stats"]
    /\ cl_result' = [cl_result EXCEPT ![c] = "AttributeError"]
    /\ cl_response' = [cl_response EXCEPT ![c] = "none"]
    /\ cl_attempt' = [cl_attempt EXCEPT ![c] = 0]
    /\ cl_requests' = [cl_requests EXCEPT ![c] = 0]
    /\ UNCHANGED <<max_concurrent_requests, cl_permits, cl_pc, request_count,
                   error_count, fixtures_cached, cl_calls, cl_key, cl_failedCalls>>
    /\ UNCHANGED <<cbVars, rlVars>>

\* time passes for the client's limiter
ClTick ==
    /\ RLTick
    /\ UNCHANGED rlHistory
    /\ UNCHANGED clientVars
    /\ UNCHANGED cbVars

(***************************************************************************)
(* AsyncLineupMonitoringService,                                           *)
(* services/async_lineup_monitoring_service.py:54-541.                     *)
(*                                                                         *)
(* start_monitoring and stop_monitoring are coroutines run by concurrent   *)
(* callers on one event loop; _monitoring_loop runs as an asyncio task.    *)
(* A step of the model is the code between two points where a coroutine    *)
(* really suspends: the roster load, the two notifications, the wait for   *)
(* the cancelled task, the client's close, and the loop's sleeps.          *)
(*                                                                         *)
(* The squad repository, the notification service and the upstream are     *)
(* injected: what they answer is an input.                                 *)
(***************************************************************************)
\* concurrent callers of start/stop
NumControllers == 2
\* loop tasks created in one run of the model
MaxTasks == 2
\* cycles begun in one run of the model
MaxCycles == 3

VARIABLES
    is_running,                    \* state.is_running
    monitoring_task,               \* self.monitoring_task: None or a task
    squad,                         \* self.squad: "none", "empty", "players"
    errors_count,                  \* state.errors_count
    total_checks,                  \* state.total_checks
    cycles_today,                  \* self._cycles_today
    max_monitoring_cycles_per_day, \* config.max_monitoring_cycles_per_day
    task_pc,                       \* where each loop task is suspended
    task_cancel,                   \* Task.cancel() was called on the task
    task_sleep,                    \* seconds of the sleep the task is in
    ctl_pc,                        \* where each start/stop caller is
    ctl_task,                      \* the task a stop caller awaits
    startup_sent,                  \* startup messages handed to send_message
    shutdown_sent,                 \* shutdown messages handed to send_message
    api_closes,                    \* calls of football_api.close()
    fixtures_due,                  \* upstream: fixtures kicking off in the window
    lineup_fault,                  \* upstream: the fixture whose lineup fetch
                                   \* fails or stalls, or "none"
    alerts_sent,                   \* alerts handed to a notification channel
    checked,                       \* fixtures whose lineup check ran to its end
    cycles_begun,                  \* history: passes of the loop's while test
    stop_requested                 \* history: stop_monitoring ran line 131 and
                                   \* no start has set is_running since

loopVars == <<is_running, monitoring_task, squad, errors_count, total_checks,
              cycles_today, max_monitoring_cycles_per_day, task_pc,
              task_cancel, task_sleep, ctl_pc, ctl_task, startup_sent,
              shutdown_sent, api_closes, fixtures_due, lineup_fault,
              alerts_sent, checked, cycles_begun, stop_requested>>

Controllers == 1..NumControllers
Tasks == 1..MaxTasks
\* the fixtures the upstream knows
Matches == {"A-B", "C-D"}
\* configured daily caps: none left, and the default of app_config.py:141
DailyCaps == {0, 200}
Channels == {"email", "discord"}
SquadLoads == {"players", "empty", "raises"}

\* __init__, lines 67-92, before any call; no task exists, nothing was sent
LoopFresh ==
    /\ is_running = FALSE
    /\ monitoring_task = None
    /\ squad = "none"
    /\ errors_count = 0
    /\ total_checks = 0
    /\ cycles_today = 0
    /\ task_pc = [t \in Tasks |-> "absent"]
    /\ task_cancel = [t \in Tasks |-> FALSE]
    /\ task_sleep = [t \in Tasks |-> 0]
    /\ ctl_pc = [c \in Controllers |-> "idle"]
    /\ ctl_task = [c \in Controllers |-> None]
    /\ startup_sent = 0
    /\ shutdown_sent = 0
    /\ api_closes = 0
    /\ alerts_sent = << >>
    /\ checked = {}
    /\ cycles_begun = 0
    /\ stop_requested = FALSE

\* the daily cap is an unvalidated int of MonitoringConfig (app_config.py:141)
LoopInit ==
    /\ LoopFresh
    /\ max_monitoring_cycles_per_day \in DailyCaps
    /\ fixtures_due \in SUBSET Matches
    /\ lineup_fault \in fixtures_due \cup {"none"}

TasksCreated == Cardinality({t \in Tasks : task_pc[t] # "absent"})
Starting == {c \in Controllers :
                ctl_pc[c] \in {"load_squad", "startup_notification"}}

\* start_monitoring, lines 94-104: returns when already running, otherwise
\* awaits _load_squad
StartMonitoring(c) ==
    /\ ctl_pc[c] = "idle"
    /\ TasksCreated + Cardinality(Starting) < MaxTasks
    /\ ctl_pc' = [ctl_pc EXCEPT ![c] = IF is_running THEN "idle"
                                       ELSE "load_squad"]
    /\ UNCHANGED <<is_running, monitoring_task, squad, errors_count,
                   total_checks, cycles_today, max_monitoring_cycles_per_day,
                   task_pc, task_cancel, task_sleep, ctl_task, startup_sent,
                   shutdown_sent, api_closes, fixtures_due, lineup_fault,
                   alerts_sent, checked, cycles_begun, stop_requested>>

\* _load_squad answers (lines 445-458), then lines 107-111 or 118-121:
\* a roster with players sets is_running and goes on to the startup
\* notification; an empty roster or a raising repository ends the call with
\* is_running = False and LineupMonitoringError
SquadLoaded(c, load) ==
    /\ ctl_pc[c] = "load_squad"
    /\ squad' = IF load = "raises" THEN squad ELSE load
    /\ is_running' = (load = "players")
    /\ stop_requested' = IF load = "players" THEN FALSE ELSE stop_requested
    /\ ctl_pc' = [ctl_pc EXCEPT ![c] = IF load = "players"
                                       THEN "startup_notification"
                                       ELSE "idle"]
    /\ UNCHANGED <<monitoring_task, errors_count, total_checks, cycles_today,
                   max_monitoring_cycles_per_day, task_pc, task_cancel,
                   task_sleep, ctl_task, startup_sent, shutdown_sent,
                   api_closes, fixtures_due, lineup_fault, alerts_sent,
                   checked, cycles_begun>>

\* _send_startup_notification returns (lines 475-490, failures swallowed),
\* then line 114: the loop task is created and stored
StartupNotified(c) ==
    /\ ctl_pc[c] = "startup_notification"
    /\ startup_sent' = startup_sent + 1
    /\ LET t == CHOOSE u \in Tasks :
                    /\ task_pc[u] = "absent"
                    /\ \A v \in Tasks : task_pc[v] = "absent" => u <= v
       IN /\ task_pc' = [task_pc EXCEPT ![t] = "created"]
          /\ monitoring_task' = t
    /\ ctl_pc' = [ctl_pc EXCEPT ![c] = "idle"]
    /\ UNCHANGED <<is_running, squad, errors_count, total_checks,
                   cycles_today, max_monitoring_cycles_per_day, task_cancel,
                   task_sleep, ctl_task, shutdown_sent, api_closes,
                   fixtures_due, lineup_fault, alerts_sent, checked,
                   cycles_begun, stop_requested>>

\* stop_monitoring, lines 123-139: returns when not running; otherwise clears
\* is_running, cancels the stored task if it is not done and awaits it
StopMonitoring(c) ==
    /\ ctl_pc[c] = "idle"
    /\ IF ~is_running
       THEN UNCHANGED <<is_running, stop_requested, task_cancel, ctl_pc,
                        ctl_task>>
       ELSE /\ is_running' = FALSE
            /\ stop_requested' = TRUE
            /\ IF monitoring_task # None /\ task_pc[monitoring_task] # "done"
               THEN /\ task_cancel' =
                          [task_cancel EXCEPT ![monitoring_task] = TRUE]
                    /\ ctl_pc' = [ctl_pc EXCEPT ![c] = "await_task"]
                    /\ ctl_task' = [ctl_task EXCEPT ![c] = monitoring_task]
               ELSE /\ ctl_pc' =
                          [ctl_pc EXCEPT ![c] = "shutdown_notification"]
                    /\ UNCHANGED <<task_cancel, ctl_task>>
    /\ UNCHANGED <<monitoring_task, squad, errors_count, total_checks,
                   cycles_today, max_monitoring_cycles_per_day, task_pc,
                   task_sleep, startup_sent, shutdown_sent, api_closes,
                   fixtures_due, lineup_fault, alerts_sent, checked,
                   cycles_begun>>

\* lines 136-142: the awaited task is done, the shutdown notification starts
TaskAwaited_SkipsNotification(c) ==
    /\ ctl_pc[c] = "await_task"
    /\ task_pc[ctl_task[c]] = "done"
    /\ ctl_pc' = [ctl_pc EXCEPT ![c] = "close"]
    /\ ctl_task' = [ctl_task EXCEPT ![c] = None]
    /\ UNCHANGED <<is_running, monitoring_task, squad, errors_count,
                   total_checks, cycles_today, max_monitoring_cycles_per_day,
                   task_pc, task_cancel, task_sleep, startup_sent,
                   shutdown_sent, api_closes, fixtures_due, lineup_fault,
                   alerts_sent, checked, cycles_begun, stop_requested>>

TaskAwaited(c) ==
    /\ ctl_pc[c] = "await_task"
    /\ task_pc[ctl_task[c]] = "done"
    /\ ctl_pc' = [ctl_pc EXCEPT ![c] = "shutdown_notification"]
    /\ ctl_task' = [ctl_task EXCEPT ![c] = None]
    /\ UNCHANGED <<is_running, monitoring_task, squad, errors_count,
                   total_checks, cycles_today, max_monitoring_cycles_per_day,
                   task_pc, task_cancel, task_sleep, startup_sent,
                   shutdown_sent, api_closes, fixtures_due, lineup_fault,
                   alerts_sent, checked, cycles_begun, stop_requested>>

\* _send_shutdown_notification returns (lines 492-510), close() is awaited
ShutdownNotified(c) ==
    /\ ctl_pc[c] = "shutdown_notification"
    /\ shutdown_sent' = shutdown_sent + 1
    /\ ctl_pc' = [ctl_pc EXCEPT ![c] = "close"]
    /\ UNCHANGED <<is_running, monitoring_task, squad, errors_count,
                   total_checks, cycles_today, max_monitoring_cycles_per_day,
                   task_pc, task_cancel, task_sleep, ctl_task, startup_sent,
                   api_closes, fixtures_due, lineup_fault, alerts_sent,
                   checked, cycles_begun, stop_requested>>

\* lines 145-148: football_api.close() returns, stop_monitoring returns
ApiClosed(c) ==
    /\ ctl_pc[c] = "close"
    /\ api_closes' = api_closes + 1
    /\ ctl_pc' = [ctl_pc EXCEPT ![c] = "idle"]
    /\ UNCHANGED <<is_running, monitoring_task, squad, errors_count,
                   total_checks, cycles_today, max_monitoring_cycles_per_day,
                   task_pc, task_cancel, task_sleep, ctl_task, startup_sent,
                   shutdown_sent, fixtures_due, lineup_fault, alerts_sent,
                   checked, cycles_begun, stop_requested>>

\* line 192: error_sleep = min(300, 30 * errors_count ** 2)
ErrorSleep(e) == Min(300, 30 * e * e)

\* the loop's  except Exception  handler, lines 187-194: count the error and
\* sleep; the sleep is awaited inside the handler, the loop goes on after it
LoopOnError_Exits(t) ==
    /\ errors_count' = errors_count + 1
    /\ task_sleep' = [task_sleep EXCEPT ![t] = 0]
    /\ task_pc' = [task_pc EXCEPT ![t] = "done"]

LoopOnError(t) ==
    /\ errors_count' = errors_count + 1
    /\ task_sleep' = [task_sleep EXCEPT ![t] = ErrorSleep(errors_count + 1)]
    /\ task_pc' = [task_pc EXCEPT ![t] = "error_backoff"]

\* _get_relevant_matches, lines 196-227: line 200 evaluates
\* CorrelationContext.create(), which utils/logging.py:235-263 does not
\* define; the AttributeError is raised inside the try, before line 204 calls
\* football_api.get_fixtures(), and leaves as DataNotAvailableError (225-227).
\* The call does not suspend, so the cycle goes from line 160 straight to
\* the handler; lines 162-182 are never reached.
GetRelevantMatches(t) == LoopOnError(t)

\* the loop's  while self.state.is_running  test, line 154
LoopRunning_Always == TRUE

LoopRunning == is_running

\* the task runs for the first time or returns from the backoff sleep: the
\* while test, then _check_daily_limits (lines 460-473), which sleeps an hour
\* when the day's count has reached the cap, then _get_relevant_matches
LoopIterate(t) ==
    /\ task_pc[t] \in {"created", "error_backoff"}
    /\ ~task_cancel[t]
    /\ IF ~LoopRunning
       THEN /\ task_pc' = [task_pc EXCEPT ![t] = "done"]
            /\ task_sleep' = [task_sleep EXCEPT ![t] = 0]
            /\ UNCHANGED <<errors_count, cycles_begun>>
       ELSE /\ cycles_begun < MaxCycles
            /\ cycles_begun' = cycles_begun + 1
            /\ IF cycles_today >= max_monitoring_cycles_per_day
               THEN /\ task_pc' = [task_pc EXCEPT ![t] = "daily_limit_wait"]
                    /\ task_sleep' = [task_sleep EXCEPT ![t] = 3600]
                    /\ UNCHANGED errors_count
               ELSE GetRelevantMatches(t)
    /\ UNCHANGED <<is_running, monitoring_task, squad, total_checks,
                   cycles_today, max_monitoring_cycles_per_day, task_cancel,
                   ctl_pc, ctl_task, startup_sent, shutdown_sent, api_closes,
                   fixtures_due, lineup_fault, alerts_sent, checked,
                   stop_requested>>

\* the hour of _check_daily_limits is over (line 473): the cycle goes on
\* with _get_relevant_matches, line 160
DailyLimitWake(t) ==
    /\ task_pc[t] = "daily_limit_wait"
    /\ ~task_cancel[t]
    /\ GetRelevantMatches(t)
    /\ UNCHANGED <<is_running, monitoring_task, squad, total_checks,
                   cycles_today, max_monitoring_cycles_per_day, task_cancel,
                   ctl_pc, ctl_task, startup_sent, shutdown_sent, api_closes,
                   fixtures_due, lineup_fault, alerts_sent, checked,
                   cycles_begun, stop_requested>>

\* CancelledError is delivered where the task is suspended: a task that
\* never ran does not start; in the daily-limit sleep it is caught at line
\* 184 and the loop breaks; in the backoff sleep, which is outside the try,
\* it leaves the coroutine
LoopCancelled(t) ==
    /\ task_cancel[t]
    /\ task_pc[t] \in {"created", "daily_limit_wait", "error_backoff"}
    /\ task_pc' = [task_pc EXCEPT ![t] = "done"]
    /\ task_sleep' = [task_sleep EXCEPT ![t] = 0]
    /\ UNCHANGED <<is_running, monitoring_task, squad, errors_count,
                   total_checks, cycles_today, max_monitoring_cycles_per_day,
                   task_cancel, ctl_pc, ctl_task, startup_sent,
                   shutdown_sent, api_closes, fixtures_due, lineup_fault,
                   alerts_sent, checked, cycles_begun, stop_requested>>

(***************************************************************************)
(* LineupMonitor, lineup_monitor.py:11-609 (the synchronous monitor run by *)
(* main.py).  check_lineups_for_match is called once per relevant match in *)
(* every cycle; self.last_check maps "<fixture>_lineup" and                *)
(* "<fixture>_warning" to the time of the last successful lineup check and *)
(* of the "not yet available" warning.  Time is counted in minutes.        *)
(***************************************************************************)
\* lineup fetches answered per fixture in one run of the model
MaxFetches == 3

VARIABLES
    last_check,        \* self.last_check: key -> minute, None when absent
    lm_warnings,       \* warnings handed to notifier.send_warning, per fixture
    lm_summaries,      \* lineup summaries handed to the notifier, per fixture
    lm_unavailable,    \* history: fetches that returned no lineup, per fixture
    lm_published       \* history: fetches that returned a lineup, per fixture

legacyVars == <<last_check, lm_warnings, lm_summaries, lm_unavailable,
                lm_published>>

LastCheckKeys == Matches \X {"lineup", "warning"}
MatchStatuses == {"NS", "TBD", "LIVE"}
LineupAnswers == {"none", "squad_players", "no_squad_players"}

\* LineupMonitor.__init__, lines 12-16
LegacyInit ==
    /\ last_check = [k \in LastCheckKeys |-> None]
    /\ lm_warnings = [m \in Matches |-> 0]
    /\ lm_summaries = [m \in Matches |-> 0]
    /\ lm_unavailable = [m \in Matches |-> 0]
    /\ lm_published = [m \in Matches |-> 0]

\* line 357: a fixture's lineup is not fetched again within 5 minutes of the
\* last fetch that returned a lineup
RecentlyChecked(m) ==
    /\ last_check[<<m, "lineup">>] # None
    /\ now - last_check[<<m, "lineup">>] < 5

\* line 366: the warning key of the fixture is in self.last_check
AlreadyWarned_Never(m) == FALSE

AlreadyWarned(m) == last_check[<<m, "warning">>] # None

\* check_lineups_for_match, lines 337-385, with the answer of
\* self.api.get_lineup (an empty list when the lineup is not published or the
\* request failed, sofascore_client.py:145-147, 185-193)
CheckLineupsForMatch(m, has_id, status, answer) ==
    IF ~has_id \/ status \notin {"TBD", "NS"} \/ RecentlyChecked(m)
    THEN UNCHANGED legacyVars
    ELSE /\ lm_unavailable[m] + lm_published[m] < MaxFetches
         /\ IF answer = "none"
            THEN /\ lm_unavailable' =
                       [lm_unavailable EXCEPT ![m] = lm_unavailable[m] + 1]
                 /\ IF AlreadyWarned(m)
                    THEN UNCHANGED <<lm_warnings, last_check>>
                    ELSE /\ lm_warnings' =
                               [lm_warnings EXCEPT ![m] = lm_warnings[m] + 1]
                         /\ last_check' =
                               [last_check EXCEPT ![<<m, "warning">>] = now]
                 /\ UNCHANGED <<lm_summaries, lm_published>>
            ELSE /\ lm_published' =
                       [lm_published EXCEPT ![m] = lm_published[m] + 1]
                 /\ last_check' = [last_check EXCEPT ![<<m, "lineup">>] = now]
                 /\ lm_summaries' =
                       [lm_summaries EXCEPT ![m] =
                           IF answer = "squad_players"
                           THEN lm_summaries[m] + 1 ELSE lm_summaries[m]]
                 /\ UNCHANGED <<lm_warnings, lm_unavailable>>

\* a minute passes between two checks
LegacyTick ==
    /\ now < MaxTime
    /\ now' = now + 1
    /\ UNCHANGED legacyVars

(***************************************************************************)
(* NotificationService, services/notification_service.py:20-227.           *)
(* self.providers is a dict keyed by provider name, iterated in insertion  *)
(* order; DiscordProvider is named "discord" and EmailProvider "email"     *)
(* (providers/discord_provider.py:36, providers/email_provider.py:39).     *)
(* Each await of a provider is one step; what the provider answers is an   *)
(* input.                                                                  *)
(***************************************************************************)
\* send_alert / send_message calls in one run of the model
MaxSends == 2

VARIABLES
    providers,          \* names of self.providers, in insertion order
    ns_pc,              \* "idle" or "sending"
    ns_kind,            \* "none", "alert" or "message": the call in hand
    ns_urgency,         \* urgency of the call in hand
    ns_todo,            \* target providers not yet tried
    ns_attempts,        \* calls made to each provider in this call
    ns_outcome,         \* what each provider answered in this call
    ns_success_count,   \* local success_count
    ns_total_attempts,  \* local total_attempts
    ns_result,          \* "none", "True" or "False": the value returned
    total_sent,         \* _notification_stats['total_sent']
    total_failed,       \* _notification_stats['total_failed']
    ns_calls            \* history: calls begun

notifyVars == <<providers, ns_pc, ns_kind, ns_urgency, ns_todo, ns_attempts,
                ns_outcome, ns_success_count, ns_total_attempts, ns_result,
                total_sent, total_failed, ns_calls>>

ProviderNames == {"email", "discord"}
Urgencies == {"urgent", "important", "info", "warning"}
ProviderAnswers == {"true", "false", "raises"}
ProviderLists ==
    {<< >>, <<"email">>, <<"discord">>, <<"email", "discord">>,
     <<"discord", "email">>}

Range(seq) == {seq[i] : i \in DOMAIN seq}

\* 'discord' in name.lower(), line 227, on the names of the two providers
IsDiscord(name) == name = "discord"

\* NotificationService.__init__, lines 28-36
NotifyFresh ==
    /\ ns_pc = "idle"
    /\ ns_kind = "none"
    /\ ns_urgency = "info"
    /\ ns_todo = << >>
    /\ ns_attempts = [n \in ProviderNames |-> 0]
    /\ ns_outcome = [n \in ProviderNames |-> "none"]
    /\ ns_success_count = 0
    /\ ns_total_attempts = 0
    /\ ns_result = "none"
    /\ total_sent = 0
    /\ total_failed = 0
    /\ ns_calls = 0

NotifyInit == NotifyFresh /\ providers \in ProviderLists

\* _get_providers_for_urgency, lines 219-227
GetProvidersForUrgency_All(urgency) == providers

GetProvidersForUrgency(urgency) ==
    IF urgency \in {"urgent", "important"}
    THEN providers
    ELSE SelectSeq(providers, IsDiscord)

\* lines 94-102 of send_alert and line 135 of send_message: the value
\* returned once every target has been tried
OverallSuccess_All(sc, ta) == sc = ta

OverallSuccess(sc, ta) == sc > 0

\* the call is over: send_alert updates the totals (lines 85-91),
\* send_message has none
NotifyReturn(kind, sc, ta) ==
    /\ ns_pc' = "idle"
    /\ ns_result' = IF OverallSuccess(sc, ta) THEN "True" ELSE "False"
    /\ total_sent' = IF kind = "alert" /\ sc > 0
                     THEN total_sent + 1 ELSE total_sent
    /\ total_failed' = IF kind = "alert" /\ sc = 0
                       THEN total_failed + 1 ELSE total_failed

\* send_alert, lines 40-61, and send_message, lines 104-118, up to the first
\* await of a provider.  send_alert returns False at once when no provider
\* is targeted (lines 58-60); send_message falls through its empty loop.
NotifyBegin(kind, urgency) ==
    /\ ns_pc = "idle"
    /\ ns_calls < MaxSends
    /\ ns_calls' = ns_calls + 1
    /\ ns_kind' = kind
    /\ ns_urgency' = urgency
    /\ ns_attempts' = [n \in ProviderNames |-> 0]
    /\ ns_outcome' = [n \in ProviderNames |-> "none"]
    /\ ns_success_count' = 0
    /\ ns_total_attempts' = 0
    /\ ns_todo' = GetProvidersForUrgency(urgency)
    /\ IF GetProvidersForUrgency(urgency) = << >>
       THEN /\ ns_pc' = "idle"
            /\ ns_result' = "False"
            /\ UNCHANGED <<total_sent, total_failed>>
       ELSE /\ ns_pc' = "sending"
            /\ ns_result' = "none"
            /\ UNCHANGED <<total_sent, total_failed>>
    /\ UNCHANGED providers

\* the provider at the head of the targets answers (send_alert lines 63-82,
\* send_message lines 120-133): a result, or an exception that is logged
ProviderAnswered(answer) ==
    /\ ns_pc = "sending"
    /\ LET name == Head(ns_todo)
           sc == IF answer = "true" THEN ns_success_count + 1 ELSE ns_success_count
           ta == ns_total_attempts + 1
       IN /\ ns_attempts' = [ns_attempts EXCEPT ![name] = ns_attempts[name] + 1]
          /\ ns_outcome' = [ns_outcome EXCEPT ![name] = answer]
          /\ ns_success_count' = sc
          /\ ns_total_attempts' = ta
          /\ ns_todo' = Tail(ns_todo)
          /\ IF Tail(ns_todo) = << >>
             THEN NotifyReturn(ns_kind, sc, ta)
             ELSE UNCHANGED <<ns_pc, ns_result, total_sent, total_failed>>
    /\ UNCHANGED <<providers, ns_kind, ns_urgency, ns_calls>>

(***************************************************************************)
(* The watch-list of AsyncLineupMonitoringService taken on its own: the    *)
(* part of a cycle between the fixture fetch and the lineup checks (lines  *)
(* 160-171), with the fetch result as an input and matches that carry the  *)
(* start_time the code reads.  One unit of time is a quarter of an hour.   *)
(***************************************************************************)
VARIABLES
    monitored_matches,   \* self.monitored_matches: match -> stored priority, None = no entry
    watch_pc,            \* where the loop is: "start", "no_match_sleep", "checks", "sleep"
    fetched,             \* matches, the result of the cycle's fetch (line 160)
    watch_sleep,         \* seconds of the asyncio.sleep the loop is in, 0 if in none
    consecutive_errors   \* history: failed cycles since the last cycle that reached line 181

watchVars == <<monitored_matches, watch_pc, fetched, watch_sleep,
               consecutive_errors>>

\* the variables of the service that the watch-list cycle leaves alone
watchFrame == <<is_running, monitoring_task, squad, max_monitoring_cycles_per_day,
                task_pc, task_cancel, task_sleep, ctl_pc, ctl_task,
                startup_sent, shutdown_sent, api_closes, fixtures_due,
                lineup_fault, alerts_sent, checked, cycles_begun,
                stop_requested>>

WatchFresh ==
    /\ monitored_matches = [m \in Matches |-> None]
    /\ watch_pc = "start"
    /\ fetched = {}
    /\ watch_sleep = 0
    /\ consecutive_errors = 0

\* match.start_time of the two fixtures, in quarters of an hour from time 0
Kickoff(m) == IF m = "A-B" THEN 3 ELSE 100

\* _calculate_match_priority (lines 405-420) on time_until_match in quarters
\* of an hour: 15 minutes = 1, 1 hour = 4, 6 hours = 24, 24 hours = 96
CalculateMatchPriority(time_until_match) ==
    IF time_until_match <= 1 THEN 1
    ELSE IF time_until_match <= 4 THEN 2
    ELSE IF time_until_match <= 24 THEN 3
    ELSE IF time_until_match <= 96 THEN 4
    ELSE 5

\* the keys of self.monitored_matches
Watched == {m \in Matches : monitored_matches[m] # None}

\* _update_monitored_matches (lines 229-256); self.squad is set whenever the
\* loop runs (start_monitoring, lines 103-111).  A match without an entry
\* gets one with the priority computed now (lines 237-247), an entry whose
\* match was returned is left as it is, the others are deleted (lines
\* 251-256)
UpdateMonitoredMatches(matches) ==
    [m \in Matches |->
        IF m \in matches
        THEN IF monitored_matches[m] = None
             THEN CalculateMatchPriority(Kickoff(m) - now)
             ELSE monitored_matches[m]
        ELSE None]

\* the handler of lines 187-194 after a cycle of the watch-list loop raised
WatchOnError ==
    /\ errors_count' = errors_count + 1
    /\ watch_sleep' = ErrorSleep(errors_count + 1)
    /\ watch_pc' = "error_backoff"
    /\ consecutive_errors' = consecutive_errors + 1

\* lines 160-168: the fetch has answered; an empty result sleeps a minute and
\* continues (lines 162-165), any other is reconciled (line 168) and the
\* checks follow
WatchFetched(matches) ==
    /\ watch_pc = "start"
    /\ errors_count + total_checks < MaxCycles
    /\ fetched' = matches
    /\ IF matches = {}
       THEN /\ watch_pc' = "no_match_sleep"
            /\ watch_sleep' = 60
            /\ UNCHANGED monitored_matches
       ELSE /\ watch_pc' = "checks"
            /\ monitored_matches' = UpdateMonitoredMatches(matches)
            /\ UNCHANGED watch_sleep
    /\ UNCHANGED <<now, errors_count, total_checks, cycles_today,
                   consecutive_errors>>

\* line 160: _get_relevant_matches raised (the upstream failed)
WatchFailed ==
    /\ watch_pc = "start"
    /\ errors_count + total_checks < MaxCycles
    /\ WatchOnError
    /\ UNCHANGED <<now, monitored_matches, fetched, total_checks, cycles_today>>

\* lines 171-181: the checks are over and counted, then
\* _calculate_next_check_interval (lines 422-443, with the default
\* intervals of MonitoringConfig): min() over the watched matches that have
\* not kicked off raises ValueError when there is none, else the loop
\* sleeps 225 s if the next kickoff is within the hour and 900 s if not
WatchChecked ==
    /\ watch_pc = "checks"
    /\ total_checks' = total_checks + 1
    /\ cycles_today' = cycles_today + 1
    /\ LET upcoming == {Kickoff(m) - now : m \in {w \in Watched : Kickoff(w) > now}}
       IN  IF upcoming = {}
           THEN WatchOnError
           ELSE /\ watch_pc' = "sleep"
                /\ watch_sleep' = IF \E d \in upcoming : d <= 4 THEN 225 ELSE 900
                /\ consecutive_errors' = 0
                /\ UNCHANGED errors_count
    /\ UNCHANGED <<now, monitored_matches, fetched>>

\* the sleep of line 164, 181 or 194 is over: back to the top of the loop
WatchWake ==
    /\ watch_pc \in {"no_match_sleep", "sleep", "error_backoff"}
    /\ watch_pc' = "start"
    /\ watch_sleep' = 0
    /\ UNCHANGED <<now, monitored_matches, fetched, errors_count,
                   total_checks, cycles_today, consecutive_errors>>

\* time passes while the loop sleeps
WatchTick ==
    /\ watch_pc \in {"no_match_sleep", "sleep", "error_backoff"}
    /\ now < MaxTime
    /\ now' = now + 1
    /\ UNCHANGED <<watchVars, errors_count, total_checks, cycles_today>>

(***************************************************************************)
(* TTLCache (utils/cache.py).  Every method body runs under self._lock and *)
(* never suspends inside it, so each is one step.  self._cache is a dict:  *)
(* it is kept as the sequence of its entries in insertion order, which is  *)
(* the order _evict_lru breaks ties in.  created_at and access_count are   *)
(* written and never read; they are left out.                              *)
(***************************************************************************)
\* self._max_size
CacheMaxSize == 2
\* calls of get
MaxGets == 1
\* the last instant of a run of the cache
CacheMaxTime == 2
\* calls of set
MaxSets == 3

VARIABLES
    cache,          \* self._cache: sequence of [key, value, expires_at, last_accessed]
    hits,           \* self._hits
    misses,         \* self._misses
    evictions,      \* self._evictions
    cache_sets,     \* calls of set so far
    got_key,        \* the key of the last get
    got,            \* what the last get returned: a value or "None"
    last_set        \* history: per key the value and expiry of the last set, or
                    \* "none" after a delete, a clear or an eviction of the key

cacheVars == <<cache, hits, misses, evictions, cache_sets, got_key, got,
               last_set>>

CacheKeys == {"k1", "k2", "k3"}
CacheValues == {"v1", "v2"}
CacheTTLs == {1, 2}

\* last_set of a key that was never set, or was deleted, cleared or evicted
NotSet == [set |-> FALSE, value |-> "None", expires_at |-> 0]

CacheFresh ==
    /\ cache = << >>
    /\ hits = 0
    /\ misses = 0
    /\ evictions = 0
    /\ cache_sets = 0
    /\ got_key = "none"
    /\ got = "None"
    /\ last_set = [k \in CacheKeys |-> NotSet]

\* the positions of the entries of key k (at most one)
CacheIndex(k) == {i \in 1..Len(cache) : cache[i].key = k}

\* the sequence without the entries whose position is in drop
CacheWithout(drop) ==
    LET keep == {i \in 1..Len(cache) : i \notin drop}
        F[i \in 0..Len(cache)] ==
            IF i = 0 THEN << >>
            ELSE IF i \in keep THEN Append(F[i - 1], cache[i]) ELSE F[i - 1]
    IN F[Len(cache)]

\* CacheEntry.is_expired (lines 34-36) with the comparison turned round
IsExpired_Late(entry) == now > entry.expires_at

\* CacheEntry.is_expired (lines 34-36)
IsExpired(entry) == now >= entry.expires_at

\* TTLCache.get (lines 99-113)
CacheGet(k) ==
    /\ hits + misses < MaxGets
    /\ got_key' = k
    /\ IF CacheIndex(k) # {}
       THEN LET i == CHOOSE j \in CacheIndex(k) : TRUE IN
            IF ~IsExpired(cache[i])
            THEN /\ cache' = [cache EXCEPT ![i].last_accessed = now]
                 /\ hits' = hits + 1
                 /\ got' = cache[i].value
                 /\ UNCHANGED misses
            ELSE /\ cache' = CacheWithout({i})
                 /\ misses' = misses + 1
                 /\ got' = "None"
                 /\ UNCHANGED hits
       ELSE /\ misses' = misses + 1
            /\ got' = "None"
            /\ UNCHANGED <<cache, hits>>
    /\ UNCHANGED <<now, evictions, cache_sets, last_set>>

\* _evict_lru (lines 130-143) with max in place of min
LruIndex_MostRecent ==
    CHOOSE i \in 1..Len(cache) :
        \A j \in 1..Len(cache) : cache[i].last_accessed >= cache[j].last_accessed

\* _evict_lru (lines 130-143): the position of the first entry, in dict
\* order, with the least last_accessed
LruIndex ==
    CHOOSE i \in 1..Len(cache) :
        /\ \A j \in 1..Len(cache) : cache[i].last_accessed <= cache[j].last_accessed
        /\ \A j \in 1..(i - 1) : cache[j].last_accessed > cache[i].last_accessed

\* TTLCache.set (lines 115-128): a new key in a full cache evicts first; a
\* key already there keeps its place in the dict
CacheSet(k, v, ttl) ==
    /\ cache_sets < MaxSets
    /\ cache_sets' = cache_sets + 1
    /\ LET entry == [key |-> k, value |-> v, expires_at |-> now + ttl,
                     last_accessed |-> now]
           evict == Len(cache) >= CacheMaxSize /\ CacheIndex(k) = {}
       IN  /\ IF evict /\ Len(cache) > 0
              THEN /\ cache' = Append(CacheWithout({LruIndex}), entry)
                   /\ evictions' = evictions + 1
                   /\ last_set' = [last_set EXCEPT
                         ![cache[LruIndex].key] = NotSet,
                         ![k] = [set |-> TRUE, value |-> v, expires_at |-> now + ttl]]
              ELSE /\ cache' = IF CacheIndex(k) # {}
                               THEN [cache EXCEPT ![CHOOSE j \in CacheIndex(k) : TRUE] = entry]
                               ELSE Append(cache, entry)
                   /\ last_set' = [last_set EXCEPT
                         ![k] = [set |-> TRUE, value |-> v, expires_at |-> now + ttl]]
                   /\ UNCHANGED evictions
    /\ UNCHANGED <<now, hits, misses, got_key, got>>

\* TTLCache.delete (lines 152-158)
CacheDelete(k) ==
    /\ CacheIndex(k) # {}
    /\ cache' = CacheWithout(CacheIndex(k))
    /\ last_set' = [last_set EXCEPT ![k] = NotSet]
    /\ UNCHANGED <<now, hits, misses, evictions, cache_sets, got_key, got>>

\* TTLCache.clear (lines 145-150)
CacheClear ==
    /\ cache # << >>
    /\ cache' = << >>
    /\ last_set' = [k \in CacheKeys |-> NotSet]
    /\ UNCHANGED <<now, hits, misses, evictions, cache_sets, got_key, got>>

\* one pass of _cleanup_expired (lines 81-89): the expired entries go
CacheSweep ==
    /\ \E i \in 1..Len(cache) : IsExpired(cache[i])
    /\ cache' = CacheWithout({i \in 1..Len(cache) : IsExpired(cache[i])})
    /\ UNCHANGED <<now, hits, misses, evictions, cache_sets, got_key, got,
                   last_set>>

\* time.time() advances
CacheTick ==
    /\ now < CacheMaxTime
    /\ now' = now + 1
    /\ UNCHANGED cacheVars

(***************************************************************************)
(* Specifications.                                                         *)
(***************************************************************************)
(* The lineup analyzer and the alert generator                             *)
(* (business/lineup_analyzer.py, business/alert_generator.py,              *)
(* domain/models.py).  A player is a record of its name, the name of its   *)
(* team and whether its status is ACTIVE; the lineups handed to the        *)
(* analyzer map a team name to the roster names among its starting eleven. *)
(***************************************************************************)
VARIABLES
    roster,              \* squad.players, in the order of the squad file
    last_analysis_time,  \* LineupAnalyzer._last_analysis_time, -1 for no entry
    an_pc,               \* "idle", "analysed" (discrepancies returned), "alerted"
    analysed,            \* <<match, lineups>> of the last analysis, << >> if none
    discrepancies,       \* the list the last analysis returned
    alerts,              \* the list generate_alerts returned for it
    an_calls,            \* analyses made so far
    first_analysis       \* history: <<match, lineups, result>> of the first analysis

analyzeVars == <<roster, last_analysis_time, an_pc, analysed, discrepancies,
                 alerts, an_calls, first_analysis>>

\* analyses made in one run
MaxAnalyses == 3

PlayerNames == <<"p1", "p2">>
TeamNames == {"A", "B", "C"}

\* {match.home_team.name, match.away_team.name}
MatchTeams(m) == IF m = "A-B" THEN {"A", "B"} ELSE {"C", "D"}

\* the lineups a caller may hand over: one for each team whose lineup is
\* out, no name in the starting eleven of both teams
LineupsOf(m) ==
    {l \in UNION {[T -> SUBSET {PlayerNames[i] : i \in DOMAIN PlayerNames}] :
                    T \in SUBSET MatchTeams(m)} :
        \A t, u \in DOMAIN l : t # u => l[t] \cap l[u] = {}}

AnalyzeInit ==
    /\ roster \in {r \in [DOMAIN PlayerNames ->
                            [name : {PlayerNames[i] : i \in DOMAIN PlayerNames},
                             team : TeamNames, active : BOOLEAN]] :
                     \A i \in DOMAIN PlayerNames : r[i].name = PlayerNames[i]}
    /\ last_analysis_time = [m \in Matches |-> -1]
    /\ an_pc = "idle"
    /\ analysed = << >>
    /\ discrepancies = << >>
    /\ alerts = << >>
    /\ an_calls = 0
    /\ first_analysis = << >>

\* LineupDiscrepancy.discrepancy_type
discrepancy_type_Swapped(d) ==
    IF d.expected_starting /\ ~d.actually_starting THEN "unexpected_starting"
    ELSE IF ~d.expected_starting /\ d.actually_starting THEN "unexpected_benching"
    ELSE "lineup_confirmed"
discrepancy_type(d) ==
    IF d.expected_starting /\ ~d.actually_starting THEN "unexpected_benching"
    ELSE IF ~d.expected_starting /\ d.actually_starting THEN "unexpected_starting"
    ELSE "lineup_confirmed"

\* LineupDiscrepancy.urgency
urgency(d) ==
    CASE discrepancy_type(d) = "unexpected_benching" -> "urgent"
      [] discrepancy_type(d) = "unexpected_starting" -> "important"
      [] discrepancy_type(d) = "lineup_confirmed" -> "info"

\* generate_alerts: _create_alert_from_discrepancy for a discrepancy that is
\* not a confirmation, _create_confirmation_alert for one that is
generate_alerts(ds) ==
    [i \in DOMAIN ds |->
        IF discrepancy_type(ds[i]) # "lineup_confirmed"
        THEN [player |-> ds[i].player, match |-> ds[i].match,
              alert_type |-> discrepancy_type(ds[i]), urgency |-> urgency(ds[i])]
        ELSE [player |-> ds[i].player, match |-> ds[i].match,
              alert_type |-> "lineup_confirmed", urgency |-> "info"]]

\* analyze_match_lineups without its side effect: _get_players_for_match,
\* _build_starting_players_lookup, then _analyze_player_lineup_status for
\* each relevant player
analyze_match_lineups_SkipsAnalysed(match, lineups) ==
    LET relevant == SelectSeq(roster, LAMBDA p : p.team \in MatchTeams(match))
    IN  IF last_analysis_time[match] # -1 THEN << >>
        ELSE [i \in DOMAIN relevant |->
                [player |-> relevant[i].name, match |-> match,
                 expected_starting |-> relevant[i].active,
                 actually_starting |->
                     /\ relevant[i].team \in DOMAIN lineups
                     /\ relevant[i].name \in lineups[relevant[i].team]]]
analyze_match_lineups(match, lineups) ==
    LET relevant == SelectSeq(roster, LAMBDA p : p.team \in MatchTeams(match))
    IN  [i \in DOMAIN relevant |->
            [player |-> relevant[i].name, match |-> match,
             expected_starting |-> relevant[i].active,
             actually_starting |->
                 /\ relevant[i].team \in DOMAIN lineups
                 /\ relevant[i].name \in lineups[relevant[i].team]]]

\* a call of analyze_match_lineups; the early return of lines 49-51 leaves
\* _last_analysis_time alone, line 65 records the time otherwise
Analyze(match, lineups) ==
    /\ an_calls < MaxAnalyses
    /\ an_calls' = an_calls + 1
    /\ analysed' = <<match, lineups>>
    /\ discrepancies' = analyze_match_lineups(match, lineups)
    /\ last_analysis_time' =
          IF \E i \in DOMAIN roster : roster[i].team \in MatchTeams(match)
          THEN [last_analysis_time EXCEPT ![match] = now]
          ELSE last_analysis_time
    /\ first_analysis' = IF first_analysis = << >>
                         THEN <<match, lineups, discrepancies'>>
                         ELSE first_analysis
    /\ alerts' = << >>
    /\ an_pc' = "analysed"
    /\ UNCHANGED <<now, roster>>

\* a call of generate_alerts on the discrepancies of the last analysis
GenerateAlerts ==
    /\ an_pc = "analysed"
    /\ alerts' = generate_alerts(discrepancies)
    /\ an_pc' = "alerted"
    /\ UNCHANGED <<now, roster, last_analysis_time, analysed, discrepancies,
                   an_calls, first_analysis>>

(***************************************************************************)
(* One caller of a function decorated by a CircuitBreaker                  *)
(* (utils/retry.py:90-130), the function being an operation or a retry     *)
(* wrapper (lines 262-343) around it.  The operation returns at once,      *)
(* raises ValueError at once, or returns after SlowDuration ticks; the     *)
(* delays of the retry wrapper are shorter than a tick.                    *)
(***************************************************************************)
VARIABLES
    cb_timeout,      \* CircuitBreakerConfig.timeout (ticks)
    ex_kind,         \* "async" or "sync": the wrapper __call__ picks (line 98)
    ex_op,           \* what the operation does: "ok", "raises", "slow"
    ex_retry,        \* max_attempts of the retry wrapper, 0 if there is none
    ex_started,      \* when the call in flight invoked the function
    ex_attempt,      \* attempts the retry wrapper has started in this call
    ex_raised,       \* what the last call raised, "none" if it returned
    call_count       \* how often the operation has run

execVars == <<cb_timeout, ex_kind, ex_op, ex_retry, ex_started, ex_attempt,
              ex_raised, call_count>>

\* longest per-call timeout of a breaker
MaxOpTimeout == 2

\* a slow operation outlasts every timeout
SlowDuration == MaxOpTimeout + 1

ExecInit ==
    /\ cb_timeout \in 1..MaxOpTimeout
    /\ ex_kind \in {"async", "sync"}
    /\ ex_op \in {"ok", "raises", "slow"}
    /\ ex_retry \in {0, ClientMaxAttempts}
    /\ ex_started = None
    /\ ex_attempt = 0
    /\ ex_raised = "none"
    /\ call_count = 0

\* the call in flight is an _execute_async whose wait_for has run out
\* (lines 107-110)
WaitForExpired ==
    /\ cbCall[1] = "inflight"
    /\ ex_kind = "async"
    /\ now - ex_started >= cb_timeout

\* _execute_async / _execute_sync up to the invocation of the function
\* (lines 102-109, 120-124)
ExecCall ==
    /\ CBCall(1)
    /\ IF ShouldAttempt
       THEN /\ ex_started' = now
            /\ ex_attempt' = 1
            /\ call_count' = call_count + 1
            /\ UNCHANGED ex_raised
       ELSE /\ ex_raised' = "CircuitBreakerOpenError"
            /\ UNCHANGED <<ex_started, ex_attempt, call_count>>
    /\ UNCHANGED <<cb_timeout, ex_kind, ex_op, ex_retry>>

\* the operation raised and the retry wrapper runs it again (lines 283-299,
\* 319-340)
ExecRetry ==
    /\ cbCall[1] = "inflight"
    /\ ex_op = "raises"
    /\ ex_attempt < ex_retry
    /\ ex_attempt' = ex_attempt + 1
    /\ call_count' = call_count + 1
    /\ UNCHANGED <<now, cbVars, cb_timeout, ex_kind, ex_op, ex_retry,
                   ex_started, ex_raised>>

\* the function raised: ValueError of the operation, or RetryExhaustedError
\* of the retry wrapper after its last attempt (lines 289-295); the breaker
\* records a failure and re-raises (lines 114-116, 128-130)
ExecRaise ==
    /\ ex_op = "raises"
    /\ ex_attempt >= ex_retry
    /\ CBFailure(1)
    /\ ex_raised' = IF ex_retry > 0 THEN "RetryExhaustedError" ELSE "ValueError"
    /\ ex_started' = None
    /\ UNCHANGED <<cb_timeout, ex_kind, ex_op, ex_retry, ex_attempt, call_count>>

\* the function returned: at once, or SlowDuration ticks after its start
\* (lines 111-112, 125-126)
ExecReturn ==
    /\ ex_op # "raises"
    /\ ex_op = "slow" => now - ex_started >= SlowDuration
    /\ CBSuccess(1)
    /\ ex_raised' = "none"
    /\ ex_started' = None
    /\ UNCHANGED <<cb_timeout, ex_kind, ex_op, ex_retry, ex_attempt, call_count>>

\* asyncio.wait_for cancels the function and raises TimeoutError, which
\* the handler of lines 114-116 records as a failure
ExecTimeout ==
    /\ WaitForExpired
    /\ CBFailure(1)
    /\ ex_raised' = "TimeoutError"
    /\ ex_started' = None
    /\ UNCHANGED <<cb_timeout, ex_kind, ex_op, ex_retry, ex_attempt, call_count>>

\* time passes: not past the end of a wait_for, and not while an operation
\* that ends at once is in flight
ExecTick ==
    /\ ~WaitForExpired
    /\ cbCall[1] = "inflight" =>
          ex_op = "slow" /\ now - ex_started < SlowDuration
    /\ CBTick
    /\ UNCHANGED execVars

(***************************************************************************)
(* LineupMonitoringService.run_monitoring_cycle,                           *)
(* services/lineup_monitoring_service.py:58-290, with the analyzer of the  *)
(* section above.  __init__ (lines 34-56) takes no squad file path and     *)
(* assigns no attribute squad_file_path, which _load_current_squad reads   *)
(* (line 132); whether a caller has assigned it after construction is a    *)
(* parameter of the model.  Time is counted in minutes.                    *)
(***************************************************************************)
VARIABLES
    has_squad_file_path, \* the object has an attribute squad_file_path
    cached_squad,        \* self._cached_squad is set
    last_squad_load,     \* self._last_squad_load
    cycles_run,          \* self._monitoring_stats['cycles_run']
    matches_checked,     \* self._monitoring_stats['matches_checked']
    cycle_result,        \* the last result: status, matches_processed, alerts_generated
    cycle_relevant,      \* history: the relevant matches of the last cycle
    cycle_raised,        \* history: those whose get_lineup raised in it
    cycle_calls          \* cycles run so far, whatever their outcome

cycleVars == <<has_squad_file_path, cached_squad, last_squad_load, cycles_run,
               matches_checked, cycle_result, cycle_relevant, cycle_raised,
               cycle_calls>>

\* cycles in one run of the model
MaxCycleRuns == 2

\* LineupMonitoringService.__init__, lines 47-56
CycleInit ==
    /\ has_squad_file_path \in BOOLEAN
    /\ cached_squad = FALSE
    /\ last_squad_load = None
    /\ cycles_run = 0
    /\ matches_checked = 0
    /\ cycle_result = [status |-> "none", matches_processed |-> 0,
                       alerts_generated |-> 0]
    /\ cycle_relevant = {}
    /\ cycle_raised = {}
    /\ cycle_calls = 0

\* run_monitoring_cycle, lines 58-118, as one step of its single caller.
\* load: what squad_repository.load_squad does; api_up and fixtures: what
\* get_fixtures does; statuses: the status of each fixture; answers: what
\* get_lineup does for each match ("raises", "none", "lineups").
RunMonitoringCycle(load, api_up, fixtures, statuses, answers) ==
    LET \* _load_current_squad, lines 120-147
        squadCached == /\ cached_squad /\ last_squad_load # None
                       /\ now - last_squad_load < 10
        loadRaises == ~squadCached /\ (~has_squad_file_path \/ load = "raises")
        \* _get_relevant_matches, lines 149-175
        squadTeams == {roster[i].team : i \in DOMAIN roster}
        relevant == {m \in fixtures :
                       /\ MatchTeams(m) \cap squadTeams # {}
                       /\ statuses[m] \in {"NS", "LIVE"}}
        \* _process_match, lines 177-225: should_analyze_match
        \* (lineup_analyzer.py 136-154) and is_started guard the fetch
        fetched_for == {m \in relevant :
                          /\ \/ last_analysis_time[m] = -1
                             \/ now - last_analysis_time[m] >= 5
                          /\ statuses[m] = "NS"}
        \* _get_match_lineups, lines 227-251, returns [] when get_lineup
        \* raises; generate_alerts gives one alert per discrepancy
        alertsOf(m) == IF m \in fetched_for /\ answers[m] = "lineups"
                       THEN Cardinality({i \in DOMAIN roster :
                                           roster[i].team \in MatchTeams(m)})
                       ELSE 0
        total_alerts == alertsOf("A-B") + alertsOf("C-D")
        matches_processed == Cardinality(relevant)
        Result(st, mp, al) ==
            [status |-> st, matches_processed |-> mp, alerts_generated |-> al]
    IN  /\ cycle_calls < MaxCycleRuns
        /\ cycle_calls' = cycle_calls + 1
        /\ IF loadRaises
           THEN /\ cycle_result' = Result("Error", 0, 0)
                /\ cycle_relevant' = {}
                /\ cycle_raised' = {}
                /\ UNCHANGED <<cached_squad, last_squad_load, cycles_run,
                               matches_checked, last_analysis_time>>
           ELSE /\ cached_squad' = TRUE
                /\ last_squad_load' = IF squadCached THEN last_squad_load ELSE now
                /\ IF ~api_up
                   THEN /\ cycle_result' = Result("Error", 0, 0)
                        /\ cycle_relevant' = {}
                        /\ cycle_raised' = {}
                        /\ UNCHANGED <<cycles_run, matches_checked,
                                       last_analysis_time>>
                   ELSE IF relevant = {}
                   THEN /\ cycle_result' = Result("No matches", 0, 0)
                        /\ cycle_relevant' = {}
                        /\ cycle_raised' = {}
                        /\ UNCHANGED <<cycles_run, matches_checked,
                                       last_analysis_time>>
                   ELSE /\ cycle_result' =
                              Result("Success", matches_processed, total_alerts)
                        /\ cycle_relevant' = relevant
                        /\ cycle_raised' =
                              {m \in fetched_for : answers[m] = "raises"}
                        /\ cycles_run' = cycles_run + 1
                        /\ matches_checked' = matches_checked + matches_processed
                        /\ last_analysis_time' =
                              [m \in Matches |->
                                 IF m \in fetched_for /\ answers[m] = "lineups"
                                 THEN now ELSE last_analysis_time[m]]
        /\ UNCHANGED <<now, has_squad_file_path, roster, an_pc, analysed,
                       discrepancies, alerts, an_calls, first_analysis>>

\* a minute passes between two cycles
CycleTick ==
    /\ now < MaxTime
    /\ now' = now + 1
    /\ UNCHANGED <<cycleVars, analyzeVars>>

(***************************************************************************)
(* The timing rules of AsyncLineupMonitoringService taken on their own:    *)
(* _should_check_lineup (lines 378-403) and _calculate_next_check_interval *)
(* (lines 422-443) under a MonitoringConfig accepted by __post_init__      *)
(* (config/app_config.py:121-167).  Configured values and the time to      *)
(* kickoff are counted in minutes, the sleep in seconds, as in the code.   *)
(***************************************************************************)
\* largest final_sprint_minutes of a configuration of the model
MaxSprintMinutes == 5

\* largest min_analysis_interval_minutes of a configuration of the model
MaxAnalysisInterval == 3

\* largest number of minutes since the last lineup check of an entry
MaxElapsed == 4

\* check_interval_minutes: below the sprint interval, and the default of
\* app_config.py:126
CheckIntervals == {1, 15}

\* minutes until kickoff: around the final sprint and around the hour
Untils == (1..(MaxSprintMinutes + 1)) \cup {60, 61}

VARIABLES
    monitoring_config,  \* self.config
    interval_check,     \* the inputs and the results of the last evaluation
    interval_prev       \* history: time to kickoff and results of the one before

intervalVars == <<monitoring_config, interval_check, interval_prev>>

\* MonitoringConfig.__post_init__: the checks on the four timing fields
post_init(c) ==
    /\ c.check_interval_minutes > 0
    /\ c.final_sprint_minutes > 0
    /\ c.final_sprint_interval_minutes > 0
    /\ c.final_sprint_interval_minutes < c.final_sprint_minutes
    /\ c.min_analysis_interval_minutes > 0

MonitoringConfigs ==
    {c \in [check_interval_minutes : CheckIntervals,
            final_sprint_minutes : 1..MaxSprintMinutes,
            final_sprint_interval_minutes : 1..MaxSprintMinutes,
            min_analysis_interval_minutes : 1..MaxAnalysisInterval] :
        post_init(c)}

\* no evaluation yet
NoCheck == [until |-> None, lineup_found |-> FALSE, elapsed |-> None,
            due |-> FALSE, min_interval |-> None, sleep |-> None]

NoPrev == [until |-> None, min_interval |-> None, sleep |-> None]

IntervalInit ==
    /\ monitoring_config \in MonitoringConfigs
    /\ interval_check = NoCheck
    /\ interval_prev = NoPrev

\* lines 387-396: min_interval, in minutes
min_interval(c, until) ==
    IF until <= c.final_sprint_minutes
    THEN c.final_sprint_interval_minutes
    ELSE c.min_analysis_interval_minutes

\* _should_check_lineup for an entry `until` minutes before kickoff whose
\* last check, if any, was `elapsed` minutes ago
should_check_lineup(c, until, lineup_found, elapsed) ==
    IF ~lineup_found THEN TRUE
    ELSE IF elapsed # None THEN elapsed >= min_interval(c, until)
    ELSE TRUE

\* _calculate_next_check_interval with a watch-list whose nearest kickoff
\* is `until` minutes ahead, in seconds
calculate_next_check_interval(c, until) ==
    IF until * 60 <= c.final_sprint_minutes * 60
    THEN c.final_sprint_interval_minutes * 60
    ELSE IF until * 60 <= 3600
    THEN Max(60, (c.check_interval_minutes * 60) \div 4)
    ELSE c.check_interval_minutes * 60

\* one pass of the loop over a watch-list of one entry: the entry is tested
\* for being due (line 276) and the sleep is computed (line 179).
\* lineup_found is set only after last_lineup_check (lines 312-315).
IntervalCheck(until, lineup_found, elapsed) ==
    /\ lineup_found => elapsed # None
    /\ interval_check' =
           [until |-> until, lineup_found |-> lineup_found,
            elapsed |-> elapsed,
            due |-> should_check_lineup(monitoring_config, until,
                                        lineup_found, elapsed),
            min_interval |-> min_interval(monitoring_config, until),
            sleep |-> calculate_next_check_interval(monitoring_config, until)]
    /\ interval_prev' = [until |-> interval_check.until,
                         min_interval |-> interval_check.min_interval,
                         sleep |-> interval_check.sleep]
    /\ UNCHANGED monitoring_config

(***************************************************************************)
vars == <<now, cbVars, retryVars, rlVars, clientVars, loopVars, legacyVars, notifyVars,
          watchVars, cacheVars, analyzeVars, execVars, cycleVars,
          intervalVars>>

\* the components a specification leaves alone, in one fixed initial state
RetryIdle == /\ RetryInit /\ rt_max_attempts = 0 /\ rt_k = 1
             /\ rt_non_retriable = {} /\ rt_retriable = {}
             /\ rt_exceptions = ExcTypes /\ rt_excType = "ValueError"
             /\ rt_excNext = "ValueError"

CBIdle == /\ CBInit /\ failure_threshold = 1 /\ recovery_timeout = 1
          /\ success_threshold = 1

RLIdle == RLInit /\ requests_per_minute = 1 /\ bucket_size = 1

ClientIdle == ClientFresh /\ max_concurrent_requests = 1

LoopIdle == /\ LoopFresh /\ max_monitoring_cycles_per_day = 200
            /\ fixtures_due = {} /\ lineup_fault = "none"

NotifyIdle == NotifyFresh /\ providers = << >>

ExecIdle ==
    /\ ExecInit /\ cb_timeout = 1 /\ ex_kind = "async" /\ ex_op = "ok"
    /\ ex_retry = 0

CycleIdle == CycleInit /\ ~has_squad_file_path

\* the defaults of MonitoringConfig, nothing evaluated
IntervalIdle ==
    /\ interval_check = NoCheck /\ interval_prev = NoPrev
    /\ monitoring_config = [check_interval_minutes |-> 15,
                            final_sprint_minutes |-> 5,
                            final_sprint_interval_minutes |-> 1,
                            min_analysis_interval_minutes |-> 5]

AnalyzeIdle ==
    /\ AnalyzeInit
    /\ \A i \in DOMAIN roster : roster[i].team = "A" /\ roster[i].active

InitCB == now = 0 /\ CBInit /\ RetryIdle /\ RLIdle /\ ClientIdle /\ LoopIdle
    /\ LegacyInit /\ NotifyIdle /\ WatchFresh /\ CacheFresh
    /\ AnalyzeIdle
    /\ ExecIdle
    /\ CycleIdle
    /\ IntervalIdle

NextCB ==
    \/ \E c \in Callers : CBCall(c) /\ UNCHANGED <<retryVars, rlVars, clientVars, loopVars, legacyVars, notifyVars, watchVars, cacheVars, analyzeVars, execVars, cycleVars, intervalVars>>
    \/ \E c \in Callers : CBSuccess(c) /\ UNCHANGED <<retryVars, rlVars, clientVars, loopVars, legacyVars, notifyVars, watchVars, cacheVars, analyzeVars, execVars, cycleVars, intervalVars>>
    \/ \E c \in Callers : CBFailure(c) /\ UNCHANGED <<retryVars, rlVars, clientVars, loopVars, legacyVars, notifyVars, watchVars, cacheVars, analyzeVars, execVars, cycleVars, intervalVars>>
    \/ CBTick /\ UNCHANGED <<retryVars, rlVars, clientVars, loopVars, legacyVars, notifyVars, watchVars, cacheVars, analyzeVars, execVars, cycleVars, intervalVars>>

SpecCB == InitCB /\ [][NextCB]_vars

InitRetry == now = 0 /\ RetryInit /\ CBIdle /\ RLIdle /\ ClientIdle /\ LoopIdle
    /\ LegacyInit /\ NotifyIdle /\ WatchFresh /\ CacheFresh
    /\ AnalyzeIdle
    /\ ExecIdle
    /\ CycleIdle
    /\ IntervalIdle

NextRetry ==
    \/ RetryStart /\ UNCHANGED <<now, cbVars, rlVars, clientVars, loopVars, legacyVars, notifyVars, watchVars, cacheVars, analyzeVars, execVars, cycleVars, intervalVars>>
    \/ RetryAttempt /\ UNCHANGED <<now, cbVars, rlVars, clientVars, loopVars, legacyVars, notifyVars, watchVars, cacheVars, analyzeVars, execVars, cycleVars, intervalVars>>
    \/ RetryWake /\ UNCHANGED <<now, cbVars, rlVars, clientVars, loopVars, legacyVars, notifyVars, watchVars, cacheVars, analyzeVars, execVars, cycleVars, intervalVars>>

SpecRetry == InitRetry /\ [][NextRetry]_vars

InitRL == now = 0 /\ RLInit /\ CBIdle /\ RetryIdle /\ ClientIdle /\ LoopIdle
    /\ LegacyInit /\ NotifyIdle /\ WatchFresh /\ CacheFresh
    /\ AnalyzeIdle
    /\ ExecIdle
    /\ CycleIdle
    /\ IntervalIdle

NextRL ==
    \/ \E c \in Callers : /\ RLAcquire(c) /\ Granted(c)
                           /\ UNCHANGED <<now, cbVars, retryVars, clientVars, loopVars, legacyVars, notifyVars, watchVars, cacheVars, analyzeVars, execVars, cycleVars, intervalVars>>
    \/ \E c \in Callers : /\ RLWake(c) /\ Granted(c)
                           /\ UNCHANGED <<now, cbVars, retryVars, clientVars, loopVars, legacyVars, notifyVars, watchVars, cacheVars, analyzeVars, execVars, cycleVars, intervalVars>>
    \/ /\ RLTick /\ Ticked
       /\ UNCHANGED <<now, cbVars, retryVars, clientVars, loopVars, legacyVars, notifyVars, watchVars, cacheVars, analyzeVars, execVars, cycleVars, intervalVars>>

SpecRL == InitRL /\ [][NextRL]_vars

InitClient == now = 0 /\ ClientInit /\ RetryIdle /\ LoopIdle
    /\ LegacyInit /\ NotifyIdle /\ WatchFresh /\ CacheFresh
    /\ AnalyzeIdle
    /\ ExecIdle
    /\ CycleIdle
    /\ IntervalIdle

NextClient ==
    \/ \E c \in Callers, op \in ClientOps :
          ClBegin(c, op) /\ UNCHANGED <<now, retryVars, loopVars, legacyVars, notifyVars, watchVars, cacheVars, analyzeVars, execVars, cycleVars, intervalVars>>
    \/ \E c \in Callers : ClAcquired(c) /\ UNCHANGED <<now, retryVars, loopVars, legacyVars, notifyVars, watchVars, cacheVars, analyzeVars, execVars, cycleVars, intervalVars>>
    \/ \E c \in Callers : ClSend(c) /\ UNCHANGED <<now, retryVars, loopVars, legacyVars, notifyVars, watchVars, cacheVars, analyzeVars, execVars, cycleVars, intervalVars>>
    \/ \E c \in Callers, r \in Responses :
          ClResponse(c, r) /\ UNCHANGED <<now, retryVars, loopVars, legacyVars, notifyVars, watchVars, cacheVars, analyzeVars, execVars, cycleVars, intervalVars>>
    \/ \E c \in Callers : ClTimeout(c) /\ UNCHANGED <<now, retryVars, loopVars, legacyVars, notifyVars, watchVars, cacheVars, analyzeVars, execVars, cycleVars, intervalVars>>
    \/ \E c \in Callers : ClBackoffWake(c) /\ UNCHANGED <<now, retryVars, loopVars, legacyVars, notifyVars, watchVars, cacheVars, analyzeVars, execVars, cycleVars, intervalVars>>
    \/ ClCacheExpire /\ UNCHANGED <<now, retryVars, loopVars, legacyVars, notifyVars, watchVars, cacheVars, analyzeVars, execVars, cycleVars, intervalVars>>
    \/ \E c \in Callers :
          ClGetPerformanceStats(c) /\ UNCHANGED <<now, retryVars, loopVars, legacyVars, notifyVars, watchVars, cacheVars, analyzeVars, execVars, cycleVars, intervalVars>>
    \/ ClTick /\ UNCHANGED <<now, retryVars, loopVars, legacyVars, notifyVars, watchVars, cacheVars, analyzeVars, execVars, cycleVars, intervalVars>>

SpecClient == InitClient /\ [][NextClient]_vars

InitLoop ==
    /\ now = 0 /\ LoopInit /\ CBIdle /\ RetryIdle /\ RLIdle /\ ClientIdle
    /\ LegacyInit /\ NotifyIdle /\ WatchFresh /\ CacheFresh
    /\ AnalyzeIdle
    /\ ExecIdle
    /\ CycleIdle
    /\ IntervalIdle

NextLoop ==
    \/ \E c \in Controllers : StartMonitoring(c) /\ UNCHANGED <<now, cbVars, retryVars, rlVars, clientVars, legacyVars, notifyVars, watchVars, cacheVars, analyzeVars, execVars, cycleVars, intervalVars>>
    \/ \E c \in Controllers, load \in SquadLoads :
          SquadLoaded(c, load) /\ UNCHANGED <<now, cbVars, retryVars, rlVars, clientVars, legacyVars, notifyVars, watchVars, cacheVars, analyzeVars, execVars, cycleVars, intervalVars>>
    \/ \E c \in Controllers : StartupNotified(c) /\ UNCHANGED <<now, cbVars, retryVars, rlVars, clientVars, legacyVars, notifyVars, watchVars, cacheVars, analyzeVars, execVars, cycleVars, intervalVars>>
    \/ \E c \in Controllers : StopMonitoring(c) /\ UNCHANGED <<now, cbVars, retryVars, rlVars, clientVars, legacyVars, notifyVars, watchVars, cacheVars, analyzeVars, execVars, cycleVars, intervalVars>>
    \/ \E c \in Controllers : TaskAwaited(c) /\ UNCHANGED <<now, cbVars, retryVars, rlVars, clientVars, legacyVars, notifyVars, watchVars, cacheVars, analyzeVars, execVars, cycleVars, intervalVars>>
    \/ \E c \in Controllers : ShutdownNotified(c) /\ UNCHANGED <<now, cbVars, retryVars, rlVars, clientVars, legacyVars, notifyVars, watchVars, cacheVars, analyzeVars, execVars, cycleVars, intervalVars>>
    \/ \E c \in Controllers : ApiClosed(c) /\ UNCHANGED <<now, cbVars, retryVars, rlVars, clientVars, legacyVars, notifyVars, watchVars, cacheVars, analyzeVars, execVars, cycleVars, intervalVars>>
    \/ \E t \in Tasks : LoopIterate(t) /\ UNCHANGED <<now, cbVars, retryVars, rlVars, clientVars, legacyVars, notifyVars, watchVars, cacheVars, analyzeVars, execVars, cycleVars, intervalVars>>
    \/ \E t \in Tasks : DailyLimitWake(t) /\ UNCHANGED <<now, cbVars, retryVars, rlVars, clientVars, legacyVars, notifyVars, watchVars, cacheVars, analyzeVars, execVars, cycleVars, intervalVars>>
    \/ \E t \in Tasks : LoopCancelled(t) /\ UNCHANGED <<now, cbVars, retryVars, rlVars, clientVars, legacyVars, notifyVars, watchVars, cacheVars, analyzeVars, execVars, cycleVars, intervalVars>>

SpecLoop == InitLoop /\ [][NextLoop]_vars

InitLegacy ==
    /\ now = 0 /\ LegacyInit /\ NotifyIdle /\ WatchFresh /\ CacheFresh
    /\ CBIdle /\ RetryIdle /\ RLIdle /\ ClientIdle /\ LoopIdle
    /\ AnalyzeIdle
    /\ ExecIdle
    /\ CycleIdle
    /\ IntervalIdle

NextLegacy ==
    \/ \E m \in Matches, has_id \in BOOLEAN, status \in MatchStatuses,
          answer \in LineupAnswers :
          /\ CheckLineupsForMatch(m, has_id, status, answer)
          /\ UNCHANGED <<now, cbVars, retryVars, rlVars, clientVars, loopVars, notifyVars, watchVars, cacheVars, analyzeVars, execVars, cycleVars, intervalVars>>
    \/ /\ LegacyTick
       /\ UNCHANGED <<cbVars, retryVars, rlVars, clientVars, loopVars, notifyVars, watchVars, cacheVars, analyzeVars, execVars, cycleVars, intervalVars>>

SpecLegacy == InitLegacy /\ [][NextLegacy]_vars

InitNotify ==
    /\ now = 0 /\ NotifyInit /\ LegacyInit
    /\ CBIdle /\ RetryIdle /\ RLIdle /\ ClientIdle /\ LoopIdle /\ WatchFresh /\ CacheFresh
    /\ AnalyzeIdle
    /\ ExecIdle
    /\ CycleIdle
    /\ IntervalIdle

NextNotify ==
    \/ \E kind \in {"alert", "message"}, u \in Urgencies :
          /\ NotifyBegin(kind, u)
          /\ UNCHANGED <<now, cbVars, retryVars, rlVars, clientVars, loopVars,
                         legacyVars, watchVars, cacheVars, analyzeVars, execVars, cycleVars, intervalVars>>
    \/ \E answer \in ProviderAnswers :
          /\ ProviderAnswered(answer)
          /\ UNCHANGED <<now, cbVars, retryVars, rlVars, clientVars, loopVars,
                         legacyVars, watchVars, cacheVars, analyzeVars, execVars, cycleVars, intervalVars>>

SpecNotify == InitNotify /\ [][NextNotify]_vars

InitWatch ==
    /\ now = 0 /\ WatchFresh
    /\ CBIdle /\ RetryIdle /\ RLIdle /\ ClientIdle /\ LoopIdle
    /\ LegacyInit /\ NotifyIdle /\ CacheFresh
    /\ AnalyzeIdle
    /\ ExecIdle
    /\ CycleIdle
    /\ IntervalIdle

NextWatch ==
    \/ \E matches \in SUBSET Matches :
          /\ WatchFetched(matches)
          /\ UNCHANGED <<cbVars, retryVars, rlVars, clientVars, watchFrame,
                         legacyVars, notifyVars, cacheVars, analyzeVars, execVars, cycleVars, intervalVars>>
    \/ WatchFailed /\ UNCHANGED <<cbVars, retryVars, rlVars, clientVars, watchFrame, legacyVars, notifyVars, cacheVars, analyzeVars, execVars, cycleVars, intervalVars>>
    \/ WatchChecked /\ UNCHANGED <<cbVars, retryVars, rlVars, clientVars, watchFrame, legacyVars, notifyVars, cacheVars, analyzeVars, execVars, cycleVars, intervalVars>>
    \/ WatchWake /\ UNCHANGED <<cbVars, retryVars, rlVars, clientVars, watchFrame, legacyVars, notifyVars, cacheVars, analyzeVars, execVars, cycleVars, intervalVars>>
    \/ WatchTick /\ UNCHANGED <<cbVars, retryVars, rlVars, clientVars, watchFrame, legacyVars, notifyVars, cacheVars, analyzeVars, execVars, cycleVars, intervalVars>>

SpecWatch == InitWatch /\ [][NextWatch]_vars

InitCache ==
    /\ now = 0 /\ CacheFresh
    /\ CBIdle /\ RetryIdle /\ RLIdle /\ ClientIdle /\ LoopIdle
    /\ LegacyInit /\ NotifyIdle /\ WatchFresh
    /\ AnalyzeIdle
    /\ ExecIdle
    /\ CycleIdle
    /\ IntervalIdle

NextCache ==
    \/ \E k \in CacheKeys :
          CacheGet(k) /\ UNCHANGED <<cbVars, retryVars, rlVars, clientVars, loopVars, legacyVars, notifyVars, watchVars, analyzeVars, execVars, cycleVars, intervalVars>>
    \/ \E k \in CacheKeys, v \in CacheValues, ttl \in CacheTTLs :
          CacheSet(k, v, ttl) /\ UNCHANGED <<cbVars, retryVars, rlVars, clientVars, loopVars, legacyVars, notifyVars, watchVars, analyzeVars, execVars, cycleVars, intervalVars>>
    \/ \E k \in CacheKeys :
          CacheDelete(k) /\ UNCHANGED <<cbVars, retryVars, rlVars, clientVars, loopVars, legacyVars, notifyVars, watchVars, analyzeVars, execVars, cycleVars, intervalVars>>
    \/ CacheClear /\ UNCHANGED <<cbVars, retryVars, rlVars, clientVars, loopVars, legacyVars, notifyVars, watchVars, analyzeVars, execVars, cycleVars, intervalVars>>
    \/ CacheSweep /\ UNCHANGED <<cbVars, retryVars, rlVars, clientVars, loopVars, legacyVars, notifyVars, watchVars, analyzeVars, execVars, cycleVars, intervalVars>>
    \/ CacheTick /\ UNCHANGED <<cbVars, retryVars, rlVars, clientVars, loopVars, legacyVars, notifyVars, watchVars, analyzeVars, execVars, cycleVars, intervalVars>>

SpecCache == InitCache /\ [][NextCache]_vars

InitAnalyze ==
    /\ now = 0 /\ AnalyzeInit
    /\ CBIdle /\ RetryIdle /\ RLIdle /\ ClientIdle /\ LoopIdle
    /\ LegacyInit /\ NotifyIdle /\ WatchFresh /\ CacheFresh
    /\ ExecIdle
    /\ CycleIdle
    /\ IntervalIdle

NextAnalyze ==
    \/ \E match \in Matches : \E lineups \in LineupsOf(match) :
          /\ Analyze(match, lineups)
          /\ UNCHANGED <<cbVars, retryVars, rlVars, clientVars, loopVars,
                         legacyVars, notifyVars, watchVars, cacheVars, execVars, cycleVars, intervalVars>>
    \/ GenerateAlerts /\ UNCHANGED <<cbVars, retryVars, rlVars, clientVars, loopVars, legacyVars, notifyVars, watchVars, cacheVars, execVars, cycleVars, intervalVars>>

SpecAnalyze == InitAnalyze /\ [][NextAnalyze]_vars

InitExec ==
    /\ now = 0 /\ CBInit /\ ExecInit
    /\ RetryIdle /\ RLIdle /\ ClientIdle /\ LoopIdle
    /\ LegacyInit /\ NotifyIdle /\ WatchFresh /\ CacheFresh
    /\ AnalyzeIdle
    /\ CycleIdle
    /\ IntervalIdle

NextExec ==
    \/ ExecCall /\ UNCHANGED <<retryVars, rlVars, clientVars, loopVars, legacyVars, notifyVars, watchVars, cacheVars, analyzeVars, cycleVars, intervalVars>>
    \/ ExecRetry /\ UNCHANGED <<retryVars, rlVars, clientVars, loopVars, legacyVars, notifyVars, watchVars, cacheVars, analyzeVars, cycleVars, intervalVars>>
    \/ ExecRaise /\ UNCHANGED <<retryVars, rlVars, clientVars, loopVars, legacyVars, notifyVars, watchVars, cacheVars, analyzeVars, cycleVars, intervalVars>>
    \/ ExecReturn /\ UNCHANGED <<retryVars, rlVars, clientVars, loopVars, legacyVars, notifyVars, watchVars, cacheVars, analyzeVars, cycleVars, intervalVars>>
    \/ ExecTimeout /\ UNCHANGED <<retryVars, rlVars, clientVars, loopVars, legacyVars, notifyVars, watchVars, cacheVars, analyzeVars, cycleVars, intervalVars>>
    \/ ExecTick /\ UNCHANGED <<retryVars, rlVars, clientVars, loopVars, legacyVars, notifyVars, watchVars, cacheVars, analyzeVars, cycleVars, intervalVars>>

SpecExec == InitExec /\ [][NextExec]_vars

InitCycle ==
    /\ now = 0 /\ CycleInit
    /\ AnalyzeInit /\ roster[1].team = "A" /\ roster[2].team = "C"
    /\ CBIdle /\ RetryIdle /\ RLIdle /\ ClientIdle /\ LoopIdle
    /\ LegacyInit /\ NotifyIdle /\ WatchFresh /\ CacheFresh
    /\ ExecIdle
    /\ IntervalIdle

NextCycle ==
    \/ \E load \in {"ok", "raises"}, api_up \in BOOLEAN,
          fixtures \in SUBSET Matches,
          statuses \in [Matches -> {"NS", "LIVE", "FT"}],
          answers \in [Matches -> {"raises", "none", "lineups"}] :
          /\ RunMonitoringCycle(load, api_up, fixtures, statuses, answers)
          /\ UNCHANGED <<cbVars, retryVars, rlVars, clientVars, loopVars, legacyVars, notifyVars, watchVars, cacheVars, execVars, intervalVars>>
    \/ CycleTick /\ UNCHANGED <<cbVars, retryVars, rlVars, clientVars, loopVars, legacyVars, notifyVars, watchVars, cacheVars, execVars, intervalVars>>

SpecCycle == InitCycle /\ [][NextCycle]_vars

InitInterval ==
    /\ now = 0 /\ IntervalInit
    /\ CBIdle /\ RetryIdle /\ RLIdle /\ ClientIdle /\ LoopIdle
    /\ LegacyInit /\ NotifyIdle /\ WatchFresh /\ CacheFresh
    /\ AnalyzeIdle /\ ExecIdle /\ CycleIdle

NextInterval ==
    \E until \in Untils, lineup_found \in BOOLEAN,
       elapsed \in {None} \cup (0..MaxElapsed) :
       /\ IntervalCheck(until, lineup_found, elapsed)
       /\ UNCHANGED <<now, cbVars, retryVars, rlVars, clientVars, loopVars, legacyVars, notifyVars, watchVars, cacheVars, analyzeVars, execVars, cycleVars>>

SpecInterval == InitInterval /\ [][NextInterval]_vars

(***************************************************************************)
(* Claims about the circuit breaker (SpecCB).                              *)
(***************************************************************************)

\* C2: a breaker that starts closed is open after exactly failure_threshold
\* consecutive recorded failures (not earlier: while closed the failure
\* counter equals the run of consecutive failures and is below the
\* threshold), and while it is open and recovery_timeout has not elapsed
\* since it opened, every attempted call is rejected with
\* CircuitBreakerOpenError and the wrapped operation is not invoked.
C2_OpensAtThresholdAndFailsFast ==
    /\ [](/\ state = "closed" =>
                 failure_count = consecFails /\ consecFails < failure_threshold
          /\ (~everHalfOpen /\ consecFails >= failure_threshold) => state = "open")
    /\ [][/\ (state = "closed" /\ state' = "open") =>
                 consecFails' = failure_threshold
          /\ (state = "open" /\ now - openedAt < recovery_timeout) =>
                 /\ invocations' = invocations
                 /\ state' = "open"
                 /\ \A c \in Callers :
                        (cbCall[c] = "idle" /\ cbOutcome'[c] # cbOutcome[c])
                            => cbOutcome'[c] = "rejected"]_vars

\* C2 witness: two consecutive failures opened a threshold-2 breaker and a
\* later call was rejected without an invocation
C2_Witness ==
    /\ failure_threshold = 2
    /\ state = "open"
    /\ ~everHalfOpen
    /\ consecFails = 2
    /\ invocations = 2
    /\ \E c \in Callers : cbOutcome[c] = "rejected"

\* C3: in half-open the breaker closes exactly when success_threshold
\* successes have been recorded since half-open was entered, resetting the
\* failure counter to 0, and the first failure recorded in half-open
\* reopens it at once.
C3_HalfOpenClosesOrReopens ==
    /\ [](state = "half_open" =>
              success_count = hoSuccesses /\ hoSuccesses < success_threshold)
    /\ [][/\ (state = "half_open" /\ state' = "closed") =>
                 hoSuccesses' = success_threshold /\ failure_count' = 0
          /\ (state = "half_open" /\ hoSuccesses' = success_threshold) =>
                 state' = "closed"
          /\ (state # "closed" /\ state' = "closed") => state = "half_open"
          /\ (state = "half_open" /\ consecFails' = consecFails + 1) =>
                 state' = "open"]_vars

\* C3 witness: a breaker with success_threshold 2 closed from half-open
C3_Witness ==
    /\ success_threshold = 2
    /\ everHalfOpen
    /\ state = "closed"
    /\ hoSuccesses = 2
    /\ failure_count = 0

\* C31: over any interleaving of calls the state changes only closed ->
\* open (failure count at the threshold), open -> half-open (recovery
\* timeout elapsed since the last failure), half-open -> closed (success
\* count at the success threshold) and half-open -> open (on a failure)
C31_OnlyFourTransitions ==
    [][state' # state =>
         \/ /\ state = "closed" /\ state' = "open"
            /\ failure_count' >= failure_threshold
         \/ /\ state = "open" /\ state' = "half_open"
            /\ last_failure_time # None
            /\ now - last_failure_time >= recovery_timeout
         \/ /\ state = "half_open" /\ state' = "closed"
            /\ success_count' >= success_threshold
         \/ /\ state = "half_open" /\ state' = "open"
            /\ failure_count' = failure_count + 1]_vars

\* C31 witness: a breaker that has been half-open is opened again by a
\* failure while a call is in flight
C31_Witness ==
    /\ state = "open"
    /\ everHalfOpen
    /\ hoSuccesses = 0
    /\ openedAt = now
    /\ \E c \in Callers : cbCall[c] = "inflight"

\* C32: once the breaker has gone half-open for a call, that call is the
\* only one let through: while it is in flight no other caller's call is
\* admitted
C32_OneTrialCallInHalfOpen ==
    [][\A c \in Callers :
         (/\ trial # 0 /\ trial # c
          /\ cbCall[trial] = "inflight" /\ state = "half_open"
          /\ cbCall[c] = "idle")
         => /\ cbCall'[c] = "idle"
            /\ invocations' = invocations]_vars

\* C38: a call that arrives at least recovery_timeout after the failure
\* that opened the circuit is admitted as the half-open trial, whatever
\* failures of calls already in flight were recorded in between
C38_LateFailuresDoNotPostponeRecovery ==
    [][\A c \in Callers :
         (/\ state = "open" /\ now - openedAt >= recovery_timeout
          /\ cbCall[c] = "idle" /\ cbOutcome[c] # "rejected")
         => cbOutcome'[c] # "rejected"]_vars

(***************************************************************************)
(* Claims about the retry wrapper (SpecRetry).                             *)
(***************************************************************************)

\* C5: when the operation raises a retryable error on its first k-1
\* invocations and succeeds on the k-th, the wrapper with max_attempts = m
\* returns after exactly k invocations if k <= m, and otherwise raises
\* RetryExhaustedError carrying attempts = m and the last error, after
\* exactly m invocations.
C5_RetryCountsAttempts ==
    (/\ rt_pc \in {"returned", "raised", "exhausted"}
     /\ should_retry(rt_excType) /\ should_retry(rt_excNext)) =>
        IF rt_k <= rt_max_attempts
        THEN rt_pc = "returned" /\ rt_invocations = rt_k
        ELSE /\ rt_pc = "exhausted"
             /\ rt_invocations = rt_max_attempts
             /\ rt_raised = <<"RetryExhaustedError", rt_max_attempts,
                              IF rt_max_attempts >= 2 THEN rt_excNext
                              ELSE IF rt_max_attempts = 1 THEN rt_excType
                              ELSE NoException>>

\* C5 witness: max_attempts = 2, success only on the third invocation:
\* exhausted after two invocations
C5_Witness ==
    /\ rt_max_attempts = 2
    /\ rt_k = 3
    /\ should_retry(rt_excType) /\ should_retry(rt_excNext)
    /\ rt_pc = "exhausted"
    /\ rt_invocations = 2

\* C23: when an invocation of the operation raises an error that the
\* configuration classifies as non-retryable (it is of a non-retriable
\* type, or retriable types are given and it is none of them, or none are
\* given and it is not among the exceptions to retry), on whichever
\* attempt, the wrapper raises that same error, not RetryExhaustedError, in
\* that step, without a backoff sleep, and the operation is not invoked
\* again
C23_NonRetryablePropagatesAtOnce ==
    /\ [][(/\ rt_invocations' # rt_invocations
           /\ rt_pc' # "returned"
           /\ \/ rt_last_exception' \in rt_non_retriable
              \/ rt_retriable # {} /\ rt_last_exception' \notin rt_retriable
              \/ rt_retriable = {} /\ rt_last_exception' \notin rt_exceptions)
          => /\ rt_pc' = "raised"
             /\ rt_raised' = <<rt_last_exception', rt_attempt, rt_last_exception'>>
             /\ rt_invocations' = rt_attempt]_vars
    /\ [][rt_pc = "raised"
          => rt_pc' = "raised" /\ rt_invocations' = rt_invocations]_vars

\* C23 witness: the first attempt failed with a retryable error, the second
\* with a non-retryable one while a third attempt was left, and the wrapper
\* raised the second error after two invocations
C23_Witness ==
    /\ rt_pc = "raised"
    /\ rt_max_attempts = 3
    /\ rt_invocations = 2
    /\ rt_excType # rt_excNext
    /\ rt_excType \in rt_exceptions
    /\ rt_non_retriable = {rt_excNext}
    /\ rt_raised = <<rt_excNext, 2, rt_excNext>>

(***************************************************************************)
(* Claims about the rate limiter (SpecRL).                                 *)
(***************************************************************************)

\* C6: for any bucket size and any rate R > 0, the number of acquire() calls
\* granted within any rolling 60-second window never exceeds R (at every
\* moment, at most R grants are younger than 60 seconds).
C6_AtMostRatePerWindow == Len(rl_recent) <= requests_per_minute

\* C37: with concurrent callers of one limiter, the acquire() calls that have
\* returned by time t are at most bucket_size + t * requests_per_minute / 60
\* (in ticks: one token per TokenTicks ticks on top of the full bucket)
C37_NoTokenSpentTwice ==
    rl_elapsed < MaxElapsedTicks =>
        rl_returns * TokenTicks <= bucket_size * TokenTicks + rl_elapsed

(***************************************************************************)
(* Claims about the upstream client (SpecClient).                          *)
(***************************************************************************)

\* C4: every outcome of get_fixtures/get_lineup is recorded by the client's
\* circuit breaker (while the circuit is closed its failure counter is the
\* number of calls that failed since the last call that returned), and after
\* failure_threshold consecutive failed calls the client's circuit is open.
C4_ClientCircuitTracksFailedCalls ==
    /\ state = "closed" => failure_count = cl_failedCalls
    /\ cl_failedCalls >= failure_threshold => state = "open"

\* C7: when the upstream answers a lineup request with not-found, get_lineup
\* returns None in that same attempt: the answer starts no further attempt
\* and no further request (a call answered so on its first attempt has sent
\* exactly one request), _error_count is not incremented and the client's
\* circuit breaker records no failure.
C7_NotFoundIsNotAFailure ==
    [][\A c \in Callers :
         (/\ cl_op[c] = "get_lineup"
          /\ cl_pc[c] = "upstream"
          /\ cl_response'[c] = "not_found")
         => /\ cl_pc'[c] = "idle"
            /\ cl_result'[c] = "None"
            /\ cl_attempt'[c] = cl_attempt[c]
            /\ cl_requests'[c] = cl_requests[c]
            /\ cl_attempt[c] = 1 => cl_requests'[c] = 1
            /\ error_count' = error_count
            /\ failure_count' = failure_count
            /\ state' = state]_vars

\* C7 witness: a get_lineup call ended on a not-found answer to its only
\* request, with None, and nothing was counted as an error
C7_Witness ==
    \E c \in Callers :
        /\ cl_pc[c] = "idle"
        /\ cl_op[c] = "get_lineup"
        /\ cl_response[c] = "not_found"
        /\ cl_result[c] = "None"
        /\ cl_requests[c] = 1
        /\ error_count = 0
        /\ failure_count = 0

(***************************************************************************)
(* Claims about the monitoring service (SpecLoop).                         *)
(*                                                                         *)
(* The standing scenario of the upstream: every fixture in fixtures_due    *)
(* is a match of a team with a roster player expected to start, kicks off  *)
(* inside the lead window, and has a lineup that leaves that player out.   *)
(***************************************************************************)
\* a task has been through a cycle: the cycle ended in the normal sleep
\* (total_checks counts those) or in the error handler (errors_count)
CycleEnded == errors_count + total_checks > 0

\* the alert C1 expects for fixture m on channel ch
BenchedAlert(m, ch) ==
    [match |-> m, type |-> "unexpected_benching", urgency |-> "urgent",
     channel |-> ch]

\* C1: end to end, with a roster player expected to start, the player's
\* fixture kicking off inside the lead window and a lineup without the
\* player, the cycle that checks the match produces exactly one alert
\* (benched unexpectedly, urgent) and the alert goes to every configured
\* channel.  Stated for every fixture in the window whose lineup fetch is
\* not the failing one, once a cycle has ended.
C1_BenchedStarterAlertRouted ==
    \A m \in fixtures_due :
        (CycleEnded /\ lineup_fault # m)
        => \A ch \in Channels :
              Cardinality({i \in DOMAIN alerts_sent :
                              alerts_sent[i] = BenchedAlert(m, ch)}) = 1

C9_CycleFailureBacksOffAndContinues ==
    [][/\ errors_count' # errors_count
          => /\ errors_count' = errors_count + 1
             /\ \E t \in Tasks :
                   /\ task_pc[t] \in {"created", "daily_limit_wait",
                                      "error_backoff"}
                   /\ task_pc'[t] = "error_backoff"
                   /\ task_sleep'[t] =
                         Min(300, 30 * errors_count' * errors_count')
                   /\ task_sleep'[t] > 0
             /\ \A t \in Tasks : task_pc'[t] = "done" => task_pc[t] = "done"
       /\ \A t \in Tasks :
             /\ (task_pc[t] = "error_backoff" /\ task_pc'[t] # task_pc[t])
                => \/ cycles_begun' = cycles_begun + 1
                   \/ task_pc'[t] = "done"
             /\ (task_pc[t] # "done" /\ task_pc'[t] = "done")
                => task_cancel[t] \/ ~is_running]_vars

\* C9 witness: two cycles have failed, the error counter is 2 and the loop
\* is in its second backoff sleep (120 s) with the service still running
C9_Witness ==
    /\ is_running
    /\ errors_count = 2
    /\ cycles_begun = 2
    /\ \E t \in Tasks : /\ task_pc[t] = "error_backoff"
                         /\ task_sleep[t] = 120
                         /\ ~task_cancel[t]
    /\ \A t \in Tasks : task_pc[t] \in {"absent", "error_backoff"}

\* C10: a failure or stall in the check of one match never aborts or blocks
\* the checks of the other due matches or the cycle.  Stated for a cycle that
\* has ended while the upstream fails or stalls on one fixture in the
\* window: every other fixture in the window has had its check run to the
\* end, and every task that has been through a cycle is in the normal sleep.
C10_SiblingChecksComplete ==
    (CycleEnded /\ lineup_fault \in fixtures_due)
    => /\ fixtures_due \ {lineup_fault} \subseteq checked
       /\ \A t \in Tasks :
             task_pc[t] \in {"sleep", "error_backoff"} => task_pc[t] = "sleep"

\* the steps of a stop_monitoring call between its request and its return
Stopping == {"await_task", "shutdown_notification", "close"}

CyclesRunToday == errors_count + total_checks

\* C16: the daily cycle cap is enforced: the number of cycles run in the
\* current day never exceeds max_monitoring_cycles_per_day
C16_DailyCapEnforced == CyclesRunToday <= max_monitoring_cycles_per_day

\* the fetches whose request is in flight to the upstream: they are inside
\* `async with self._request_semaphore`
InFlight == {c \in Callers : cl_pc[c] = "upstream"}

\* the fetches suspended in self._rate_limiter.acquire()
AcquiringLimiter == {c \in Callers : cl_pc[c] = "rl_wait"}

\* the callers whose call is get_lineup
LineupFetches == {c \in Callers : cl_op[c] = "get_lineup"}

\* C19 as stated: at every instant at most max_concurrent_requests lineup
\* fetches are acquiring the rate limiter or are in flight to the upstream
C19_SemaphoreBoundsLimiterAndUpstream ==
    Cardinality((AcquiringLimiter \cup InFlight) \cap LineupFetches)
        <= max_concurrent_requests

\* C19 as amended: at every instant at most max_concurrent_requests fetches
\* are in flight to the upstream, each holding one permit of the semaphore;
\* the fetches waiting at the rate limiter are outside the semaphore and
\* are not counted
C19_SemaphoreBoundsUpstream ==
    /\ Cardinality(InFlight) <= max_concurrent_requests
    /\ cl_permits = max_concurrent_requests - Cardinality(InFlight)

\* C19 witness: with one permit, one fetch is in flight and another started
\* concurrently is held at the semaphore
C19_Witness ==
    /\ max_concurrent_requests = 1
    /\ cl_permits = 0
    /\ \E c, d \in Callers :
          /\ cl_pc[c] = "upstream" /\ cl_op[c] = "get_lineup"
          /\ cl_pc[d] = "sem_wait" /\ cl_op[d] = "get_lineup"

\* C30: a fetch composes limiter, then breaker around retry around the raw
\* fetch, then the cache: the limiter is acquired once per call, before the
\* first attempt; the attempts of a call are one call to the breaker, which
\* records a failure when they are exhausted; and a call that ends in
\* failure writes nothing to the cache
C30_FixedCompositionOrder ==
    [][\A c \in Callers :
         /\ (cl_pc[c] \in {"idle", "backoff"} /\ cl_pc'[c] \notin {"idle", "backoff"})
               => cl_attempt'[c] = 1
         /\ (cl_pc[c] # "idle" /\ cl_pc'[c] = "idle"
             /\ cl_result'[c] = "RetryExhaustedError")
               => /\ failure_count' = failure_count + 1
                  /\ fixtures_cached' = fixtures_cached]_vars

\* C22: a call of a cached operation made while the cache holds a live
\* stored response of the same operation and arguments returns that
\* response and does not invoke the wrapped fetch, whatever happened to the
\* client's counters and limiter in between: no get_fixtures call leaves
\* the cache lookup for the limiter, the semaphore or the upstream while a
\* get_fixtures response is stored and not expired
C22_StoredResponseIsReused ==
    [][\A c \in Callers :
         (/\ cl_calls' # cl_calls
          /\ cl_pc[c] = "idle"
          /\ cl_pc'[c] # "idle"
          /\ cl_op'[c] = "get_fixtures")
         => fixtures_cached = << >>]_vars

\* C39: whatever the interleaving of start_monitoring and stop_monitoring
\* calls, at most one monitoring loop task exists that has not finished
C39_AtMostOneLoopTask ==
    Cardinality({t \in Tasks : task_pc[t] \notin {"absent", "done"}}) <= 1

C20_GetHonoursExpiry ==
    [][hits' + misses' # hits + misses
       => LET k == got_key'
              s == last_set[k]
          IN  /\ (s.set /\ now < s.expires_at) => got' = s.value
              /\ (s.set /\ now >= s.expires_at) => got' = "None"
              /\ got' # "None" => (s.set /\ now < s.expires_at /\ got' = s.value)
              /\ hits' = hits + (IF got' = "None" THEN 0 ELSE 1)]_vars

\* C20 witness: a value was set with a ttl, time passed, and a get before
\* the expiry has returned it
C20_Witness ==
    /\ hits = 1
    /\ got_key # "none"
    /\ now > 0
    /\ last_set[got_key].set
    /\ got = last_set[got_key].value
    /\ now < last_set[got_key].expires_at
    /\ \E i \in CacheIndex(got_key) : cache[i].last_accessed = now

\* C20 witness of the miss: the entry set earlier is still in the cache at
\* its expiry (no sweep has run) and the get at that instant has missed and
\* removed it
C20_WitnessMiss ==
    /\ misses = 1
    /\ got_key # "none"
    /\ got = "None"
    /\ last_set[got_key].set
    /\ now = last_set[got_key].expires_at
    /\ CacheIndex(got_key) = {}

\* C21: a set of a new key on a full cache evicts exactly one entry, whose
\* last access (its creation or its last hit) is no later than that of any
\* entry that is kept; a set of a key already present evicts nothing; and
\* the cache never holds more than max_size entries.  Stated of every step
\* that is a set (the only steps that change cache_sets).
C21_SetEvictsLeastRecentlyAccessed ==
    /\ [](Len(cache) <= CacheMaxSize)
    /\ [][cache_sets' # cache_sets
          => LET before == {cache[i].key : i \in 1..Len(cache)}
                 after == {cache'[i].key : i \in 1..Len(cache')}
                 gone == before \ after
                 added == after \ before
             IN  /\ Cardinality(after) = Len(cache')
                 /\ evictions' = evictions + Cardinality(gone)
                 /\ gone # {} <=> (added # {} /\ Len(cache) >= CacheMaxSize)
                 /\ Cardinality(gone) <= 1
                 /\ \A i, j \in 1..Len(cache) :
                       (cache[i].key \in gone /\ cache[j].key \notin gone)
                       => cache[i].last_accessed <= cache[j].last_accessed]_vars

\* C21 witness: three sets filled the cache and evicted once, and the entry
\* that was inserted first is still there because a get touched it later
C21_Witness ==
    /\ evictions = 1
    /\ cache_sets = 3
    /\ hits = 1
    /\ Len(cache) = CacheMaxSize
    /\ cache[1].key = got_key
    /\ cache[1].last_accessed > 0
    /\ \E k \in CacheKeys : last_set[k] = NotSet /\ CacheIndex(k) = {}

NotifyDone == ns_pc = "idle" /\ ns_kind # "none"

\* C13: an alert or message of urgency urgent or important is sent to every
\* configured channel; one of urgency info or warning is sent only to the
\* low-noise channel (discord, never email).  When a call has returned, each
\* configured channel was tried once if the urgency is urgent or important
\* or the channel is discord, and was not tried otherwise.
C13_RoutingByUrgency ==
    NotifyDone
    => \A n \in ProviderNames :
          ns_attempts[n] =
              IF /\ n \in Range(providers)
                 /\ \/ ns_urgency \in {"urgent", "important"}
                    \/ n = "discord"
              THEN 1 ELSE 0

\* C13 witness: an info alert with only the email channel configured has
\* returned with no delivery attempt
C13_Witness ==
    /\ NotifyDone
    /\ ns_kind = "alert"
    /\ ns_urgency = "info"
    /\ providers = <<"email">>
    /\ ns_attempts["email"] = 0
    /\ ns_result = "False"

\* C14: send_alert tries every targeted channel exactly once, also after an
\* earlier channel returned failure or raised, never raises, and reports
\* success exactly when at least one targeted channel succeeded; with no
\* channel configured it returns failure.
C14_EveryTargetTriedOnce ==
    (NotifyDone /\ ns_kind = "alert")
    => /\ \A n \in Range(GetProvidersForUrgency(ns_urgency)) :
             ns_attempts[n] = 1 /\ ns_outcome[n] # "none"
       /\ ns_total_attempts = Len(GetProvidersForUrgency(ns_urgency))
       /\ ns_result \in {"True", "False"}
       /\ ns_result = "True" <=> \E n \in ProviderNames : ns_outcome[n] = "true"
       /\ providers = << >> => ns_result = "False"

\* C14 witness: an urgent alert with two channels, the first of which
\* raised and the second succeeded, returned success after two attempts
C14_Witness ==
    /\ NotifyDone
    /\ ns_kind = "alert"
    /\ ns_urgency = "urgent"
    /\ Len(providers) = 2
    /\ ns_outcome[providers[1]] = "raises"
    /\ ns_outcome[providers[2]] = "true"
    /\ ns_total_attempts = 2
    /\ ns_result = "True"

(***************************************************************************)
(* Claims about the analyzer and the alert generator (SpecAnalyze).        *)
(***************************************************************************)

\* C25: classification and urgency are a fixed table of (expected_starting,
\* actually_starting): (TRUE, FALSE) is an unexpected benching and urgent,
\* (FALSE, TRUE) an unexpected starting and important, the two others a
\* confirmed lineup and info; the alert of each discrepancy carries both
C25_ClassificationTable ==
    an_pc = "alerted" =>
        /\ Len(alerts) = Len(discrepancies)
        /\ \A i \in DOMAIN discrepancies :
             LET e == discrepancies[i].expected_starting
                 a == discrepancies[i].actually_starting
                 row == <<alerts[i].alert_type, alerts[i].urgency>>
             IN  /\ (e /\ ~a) => row = <<"unexpected_benching", "urgent">>
                 /\ (~e /\ a) => row = <<"unexpected_starting", "important">>
                 /\ (e = a) => row = <<"lineup_confirmed", "info">>
                 /\ alerts[i].player = discrepancies[i].player

C25_Witness ==
    /\ an_pc = "alerted"
    /\ \E i, j \in DOMAIN alerts :
         /\ alerts[i].urgency = "urgent" /\ discrepancies[i].expected_starting
         /\ alerts[j].urgency = "important" /\ discrepancies[j].actually_starting

C25_WitnessConfirmed ==
    /\ an_pc = "alerted"
    /\ \E i, j \in DOMAIN alerts :
         /\ alerts[i].urgency = "info" /\ discrepancies[i].expected_starting
         /\ alerts[j].urgency = "info" /\ ~discrepancies[j].actually_starting
         /\ ~discrepancies[j].expected_starting

\* C26: an analysis returns exactly one discrepancy for each roster player
\* whose team is the home or the away team of the match and none for any
\* other player, and an analysis of the inputs of the first analysis returns
\* what the first one returned, whatever was analysed in between
C26_AnalyzerIsPure ==
    an_pc \in {"analysed", "alerted"} =>
        /\ \A p \in DOMAIN roster :
             Cardinality({i \in DOMAIN discrepancies :
                            discrepancies[i].player = roster[p].name})
               = IF roster[p].team \in MatchTeams(analysed[1]) THEN 1 ELSE 0
        /\ \A i \in DOMAIN discrepancies : discrepancies[i].match = analysed[1]
        /\ (analysed = <<first_analysis[1], first_analysis[2]>>)
               => discrepancies = first_analysis[3]

C26_Witness ==
    /\ an_calls = MaxAnalyses
    /\ analysed = <<first_analysis[1], first_analysis[2]>>
    /\ Len(discrepancies) = 1
    /\ \E p \in DOMAIN roster : roster[p].team \notin MatchTeams(analysed[1])
    /\ \A m \in Matches : last_analysis_time[m] # -1

\* C35: an unexpected-benching alert is produced for a roster player only if
\* the lineups handed to the analysis hold the lineup of the player's own team
\* and that lineup does not list the player
C35_BenchedOnlyOnOwnTeamLineup ==
    an_pc = "alerted" =>
        \A i \in DOMAIN alerts :
            alerts[i].alert_type = "unexpected_benching" =>
                \E p \in DOMAIN roster :
                    /\ roster[p].name = alerts[i].player
                    /\ roster[p].team \in DOMAIN analysed[2]
                    /\ alerts[i].player \notin analysed[2][roster[p].team]

(***************************************************************************)
(* Claims about a call through the circuit breaker (SpecExec).             *)
(***************************************************************************)

\* C27: every call through the breaker, of a synchronous or an asynchronous
\* function, is in flight for at most the per-call timeout, and a call that
\* times out is recorded as one failure
C27_EveryCallBoundedByTimeout ==
    /\ [](cbCall[1] = "inflight" => now - ex_started <= cb_timeout)
    /\ [][(cbCall[1] = "inflight" /\ ex_raised' = "TimeoutError")
          => failure_count' = failure_count + 1]_vars

\* C28: a breaker with failure_threshold = 2 around a retry wrapper with
\* max_attempts = 3 around an operation that always raises: the first call
\* raises RetryExhaustedError, and the call after it raises
\* CircuitBreakerOpenError without running the operation
C28_BreakerRejectsAfterExhaustedRetry ==
    [][(/\ failure_threshold = 2 /\ ex_retry = 3 /\ ex_op = "raises"
        /\ invocations = 1)
       => /\ (cbCall[1] = "inflight" /\ cbCall'[1] = "idle")
                => ex_raised' = "RetryExhaustedError"
          /\ (cbCall[1] = "idle" /\ <<cbVars, execVars>>' # <<cbVars, execVars>>)
                => /\ ex_raised' = "CircuitBreakerOpenError"
                   /\ call_count' = call_count]_vars

(***************************************************************************)
(* Claims about the monitoring cycle of LineupMonitoringService            *)
(* (SpecCycle).                                                            *)
(***************************************************************************)

\* C29: a cycle in which the lineup fetch of a relevant match raised returns
\* status Success, and the matches whose fetch raised are not counted in
\* matches_processed
C29_RaisingFetchIsNotCounted ==
    cycle_raised # {} =>
        /\ cycle_result.status = "Success"
        /\ cycle_result.matches_processed =
              Cardinality(cycle_relevant \ cycle_raised)

(***************************************************************************)
(* Claims about the timing rules of the monitoring service (SpecInterval). *)
(***************************************************************************)

\* C33: under every configuration accepted by validation the computed sleep
\* lies between the final-sprint interval and the base interval, and a
\* computation nearer to the kickoff than the one before it does not give
\* a longer sleep.
C33_SleepBetweenSprintAndBase ==
    interval_check # NoCheck =>
        /\ monitoring_config.final_sprint_interval_minutes * 60
               <= interval_check.sleep
        /\ interval_check.sleep <= monitoring_config.check_interval_minutes * 60
        /\ (interval_prev # NoPrev /\ interval_check.until <= interval_prev.until)
               => interval_check.sleep <= interval_prev.sleep

\* C34: under every configuration accepted by validation an entry is due
\* exactly when no lineup is known for it or at least its minimum re-check
\* interval has passed since its last check, and that interval does not
\* grow from one evaluation to another nearer to the kickoff.
C34_DueAndIntervalShrinks ==
    interval_check # NoCheck =>
        /\ interval_check.due <=>
               \/ ~interval_check.lineup_found
               \/ interval_check.elapsed >= interval_check.min_interval
        /\ (interval_prev # NoPrev /\ interval_check.until <= interval_prev.until)
               => interval_check.min_interval <= interval_prev.min_interval

====
